---- MODULE Spec2Model ----
(***************************************************************************)
(* Model of the classification and aggregation engine of kmc_dashboard.py. *)
(*                                                                         *)
(* Text is a sequence of Unicode code points, so that lower(), strip(),    *)
(* the emoji regex and the `in` substring test are computed as Python      *)
(* computes them.  A document is a TLA+ record holding exactly the keys    *)
(* that are present; dict.get(key, default) is Get.  UIDs are plain        *)
(* strings (the code only tests them for emptiness and equality); a        *)
(* missing UID and an empty UID are both falsy and are both "".            *)
(***************************************************************************)
EXTENDS Integers, Sequences, FiniteSets, TLC

VARIABLES
  baby_data,       \* load_firebase_data: the baby + babyBackUp documents kept
  discharge_data,  \* load_firebase_data: the discharges documents
  reports,         \* main: the report of each calculator, <<>> before its call
  call,            \* a direct call of one classifier: [fn, args]
  returned,        \* the value that call returned, <<>> before it returns
  today            \* datetime.now().date() as a day number

vars == <<baby_data, discharge_data, reports, call, returned, today>>

(***************************************************************************)
(* Python built-ins on text                                                *)
(***************************************************************************)

\* dict.get(key, default)
Get(d, key, default) == IF key \in DOMAIN d THEN d[key] ELSE default

\* str.lower() on one code point (ASCII letters; the other code points used
\* here, Devanagari and pictographs, have no case)
LowerChar(c) == IF c >= 65 /\ c <= 90 THEN c + 32 ELSE c

\* str.lower()
Lower(s) == [i \in 1..Len(s) |-> LowerChar(s[i])]

\* str.isspace() on one code point
IsSpace(c) == c \in {9, 10, 11, 12, 13, 28, 29, 30, 31, 32, 133, 160}

RECURSIVE LStrip(_)
LStrip(s) == IF s # <<>> /\ IsSpace(Head(s)) THEN LStrip(Tail(s)) ELSE s

RECURSIVE RStrip(_)
RStrip(s) ==
  IF s # <<>> /\ IsSpace(s[Len(s)]) THEN RStrip(SubSeq(s, 1, Len(s) - 1)) ELSE s

\* str.strip()
Strip(s) == RStrip(LStrip(s))

\* p in s
Contains(s, p) ==
  \E i \in 0..(Len(s) - Len(p)) : SubSeq(s, i + 1, i + Len(p)) = p

(***************************************************************************)
(* String literals of the source, as code points                           *)
(***************************************************************************)

\* "critical"
P_critical ==
  <<99, 114, 105, 116, 105, 99, 97, 108>>

\* "home"
P_home ==
  <<104, 111, 109, 101>>

\* "stable"
P_stable ==
  <<115, 116, 97, 98, 108, 101>>

\* "referred"
P_referred ==
  <<114, 101, 102, 101, 114, 114, 101, 100>>

\* "died"
P_died ==
  <<100, 105, 101, 100>>

\* "critical and discharged"
P_critical_and_discharged ==
  <<99, 114, 105, 116, 105, 99, 97, 108, 32, 97, 110, 100, 32, 100, 105, 115, 99, 104, 97, 114, 103, 101, 100>>

\* "discharged according to criteria"
P_discharged_according_to_criteria ==
  <<100, 105, 115, 99, 104, 97, 114, 103, 101, 100, 32, 97, 99, 99, 111, 114, 100, 105, 110, 103, 32, 116, 111, 32, 99, 114, 105, 116, 101, 114, 105, 97>>

\* "referred out"
P_referred_out ==
  <<114, 101, 102, 101, 114, 114, 101, 100, 32, 111, 117, 116>>

\* "died before discharge"
P_died_before_discharge ==
  <<100, 105, 101, 100, 32, 98, 101, 102, 111, 114, 101, 32, 100, 105, 115, 99, 104, 97, 114, 103, 101>>

\* "death"
P_death ==
  <<100, 101, 97, 116, 104>>

\* "U+0921 U+093F U+0938 U+094D U+091A U+093E U+0930 U+094D U+091C U+0020 U+0938 U+0947 U+0020 U+092A U+0939 U+0932 U+0947 U+0020 U+0939 U+0940 U+0020 U+092E U+0943 U+0924 U+094D U+092F U+0941 U+0020 U+0939 U+094B U+0020 U+0917 U+0908"
P_hindi_died_before_discharge ==
  <<2337, 2367, 2360, 2381, 2330, 2366, 2352, 2381, 2332, 32, 2360, 2375, 32, 2346, 2361, 2354, 2375, 32, 2361, 2368, 32, 2350, 2371, 2340, 2381, 2351, 2369, 32, 2361, 2379, 32, 2327, 2312>>

\* "U+092E U+0943 U+0924 U+094D U+092F U+0941 U+0020 U+0939 U+094B U+0020 U+0917 U+0908"
P_hindi_death ==
  <<2350, 2371, 2340, 2381, 2351, 2369, 32, 2361, 2379, 32, 2327, 2312>>

\* "correct"
P_correct ==
  <<99, 111, 114, 114, 101, 99, 116>>

\* "true"
P_true ==
  <<116, 114, 117, 101>>

\* "incorrect"
P_incorrect ==
  <<105, 110, 99, 111, 114, 114, 101, 99, 116>>

\* "false"
P_false ==
  <<102, 97, 108, 115, 101>>

\* "unable"
P_unable ==
  <<117, 110, 97, 98, 108, 101>>

\* "U+0915 U+0947 U+090F U+092E U+0938 U+0940 U+0020 U+0915 U+0947 U+0020 U+0932 U+093F U+090F U+0020 U+0905 U+0938 U+094D U+0925 U+093F U+0930 U+0020 U+1F998 U+1F6AB"
P_unstable_for_kmc ==
  <<2325, 2375, 2319, 2350, 2360, 2368, 32, 2325, 2375, 32, 2354, 2367, 2319, 32, 2309, 2360, 2381, 2341, 2367, 2352, 32, 129432, 128683>>

\* "U+092F U+0939 U+0020 U+0905 U+0938 U+094D U+092A U+0924 U+093E U+0932"
P_yah_aspatal ==
  <<2351, 2361, 32, 2309, 2360, 2381, 2346, 2340, 2366, 2354>>

\* "this hospital"
P_this_hospital ==
  <<116, 104, 105, 115, 32, 104, 111, 115, 112, 105, 116, 97, 108>>

\* "This Hospital"
T_This_Hospital ==
  <<84, 104, 105, 115, 32, 72, 111, 115, 112, 105, 116, 97, 108>>

\* "other hospital"
T_other_hospital ==
  <<111, 116, 104, 101, 114, 32, 104, 111, 115, 112, 105, 116, 97, 108>>

\* "Unknown"
P_Unknown ==
  <<85, 110, 107, 110, 111, 119, 110>>

\* "test"
P_test ==
  <<116, 101, 115, 116>>

\* "training"
P_training ==
  <<116, 114, 97, 105, 110, 105, 110, 103>>

\* "demo"
P_demo ==
  <<100, 101, 109, 111>>

(***************************************************************************)
(* Bounds of the model                                                     *)
(***************************************************************************)

\* most baby + babyBackUp documents kept by one load
MaxBabies == 2

\* most discharges documents in one load
MaxDischarges == 2

\* most parts a babyBackUp status text is put together from
MaxParts == 3

\* most observation entries of one baby
MaxObs == 2

\* the largest max_retries of a call of load_collection_with_retry
MaxRetries == 5
\* "Critical"
T_Critical ==
  <<67, 114, 105, 116, 105, 99, 97, 108>>

\* "CRITICAL "
T_CRITICAL_sp ==
  <<67, 82, 73, 84, 73, 67, 65, 76, 32>>

\* " critical"
T_sp_critical ==
  <<32, 99, 114, 105, 116, 105, 99, 97, 108>>

\* "Stable"
T_Stable ==
  <<83, 116, 97, 98, 108, 101>>

\* "unknown"
T_unknown ==
  <<117, 110, 107, 110, 111, 119, 110>>

\* "Home"
T_Home ==
  <<72, 111, 109, 101>>

\* " home "
T_sp_home_sp ==
  <<32, 104, 111, 109, 101, 32>>

\* "Referred"
T_Referred ==
  <<82, 101, 102, 101, 114, 114, 101, 100>>

\* "DIED"
T_DIED ==
  <<68, 73, 69, 68>>

\* "died "
T_died_sp ==
  <<100, 105, 101, 100, 32>>

\* " and discharged"
T_and_discharged ==
  <<32, 97, 110, 100, 32, 100, 105, 115, 99, 104, 97, 114, 103, 101, 100>>

\* "U+1F47C"
T_angel ==
  <<128124>>

\* "Referred out"
T_Referred_out ==
  <<82, 101, 102, 101, 114, 114, 101, 100, 32, 111, 117, 116>>

\* "Discharged according to criteria"
T_Discharged_according_to_criteria ==
  <<68, 105, 115, 99, 104, 97, 114, 103, 101, 100, 32, 97, 99, 99, 111, 114, 100, 105, 110, 103, 32, 116, 111, 32, 99, 114, 105, 116, 101, 114, 105, 97>>

\* "Critical and discharged"
T_Critical_and_discharged ==
  <<67, 114, 105, 116, 105, 99, 97, 108, 32, 97, 110, 100, 32, 100, 105, 115, 99, 104, 97, 114, 103, 101, 100>>

\* " "
T_space ==
  <<32>>

\* "H1"
T_H1 ==
  <<72, 49>>

\* "H2"
T_H2 ==
  <<72, 50>>

\* "A"
T_A ==
  <<65>>

\* "A-B"
T_A_B ==
  <<65, 45, 66>>

\* "B-C"
T_B_C ==
  <<66, 45, 67>>

\* "C"
T_C ==
  <<67>>

\* "DEMO Ward"
T_DEMO_Ward ==
  <<68, 69, 77, 79, 32, 87, 97, 114, 100>>

\* "Contest Clinic"
T_Contest_Clinic ==
  <<67, 111, 110, 116, 101, 115, 116, 32, 67, 108, 105, 110, 105, 99>>

\* "abc"
T_abc ==
  <<97, 98, 99>>

\* "many"
T_many ==
  <<109, 97, 110, 121>>

\* "4"
T_4 ==
  <<52>>

\* " 12 "
T_sp_12_sp ==
  <<32, 49, 50, 32>>

\* "Correct"
T_Correct ==
  <<67, 111, 114, 114, 101, 99, 116>>

\* "TRUE"
T_TRUE ==
  <<84, 82, 85, 69>>

\* "Incorrect"
T_Incorrect ==
  <<73, 110, 99, 111, 114, 114, 101, 99, 116>>

\* "False"
T_False ==
  <<70, 97, 108, 115, 101>>

\* "Unable to verify"
T_Unable_to_verify ==
  <<85, 110, 97, 98, 108, 101, 32, 116, 111, 32, 118, 101, 114, 105, 102, 121>>

\* " correct"
T_sp_correct ==
  <<32, 99, 111, 114, 114, 101, 99, 116>>

\* "wrong minutes"
T_wrong_minutes ==
  <<119, 114, 111, 110, 103, 32, 109, 105, 110, 117, 116, 101, 115>>

\* "  "
T_two_spaces ==
  <<32, 32>>

\* "fever"
T_fever ==
  <<102, 101, 118, 101, 114>>

\* "['GA', 'weightLoss>2%']"
R_GA_weightLoss ==
  <<91, 39, 71, 65, 39, 44, 32, 39, 119, 101, 105, 103, 104, 116, 76, 111, 115, 115, 62, 50, 37, 39, 93>>

\* "['weightLoss>2%', 'GA']"
R_weightLoss_GA ==
  <<91, 39, 119, 101, 105, 103, 104, 116, 76, 111, 115, 115, 62, 50, 37, 39, 44, 32, 39, 71, 65, 39, 93>>

\* "['GA']"
R_GA_list ==
  <<91, 39, 71, 65, 39, 93>>

\* " ['GA'] "
R_padded_list ==
  <<32, 91, 39, 71, 65, 39, 93, 32>>

\* "['GA',]"
R_trailing_comma ==
  <<91, 39, 71, 65, 39, 44, 93>>

\* ["GA"]
R_double_quoted ==
  <<91, 34, 71, 65, 34, 93>>

\* "['GA', ' GA']"
R_GA_sp_GA ==
  <<91, 39, 71, 65, 39, 44, 32, 39, 32, 71, 65, 39, 93>>

\* "['GA', 'GA']"
R_GA_GA ==
  <<91, 39, 71, 65, 39, 44, 32, 39, 71, 65, 39, 93>>

\* "['GA', '']"
R_GA_empty ==
  <<91, 39, 71, 65, 39, 44, 32, 39, 39, 93>>

\* "[]"
R_empty_list ==
  <<91, 93>>

\* "[GA, weightLoss>2%]"
R_unquoted ==
  <<91, 71, 65, 44, 32, 119, 101, 105, 103, 104, 116, 76, 111, 115, 115, 62, 50, 37, 93>>

\* "['GA', weightLoss>2%]"
R_half_quoted ==
  <<91, 39, 71, 65, 39, 44, 32, 119, 101, 105, 103, 104, 116, 76, 111, 115, 115, 62, 50, 37, 93>>

\* "['GA', 'weightLoss>2%'"
R_unclosed ==
  <<91, 39, 71, 65, 39, 44, 32, 39, 119, 101, 105, 103, 104, 116, 76, 111, 115, 115, 62, 50, 37, 39>>

\* "GA"
R_GA ==
  <<71, 65>>

\* "  "
R_blank ==
  <<32, 32>>

\* "weightLoss>2%"
R_weightLoss ==
  <<119, 101, 105, 103, 104, 116, 76, 111, 115, 115, 62, 50, 37>>

\* "Test Hospital"
T_Test_Hospital ==
  <<84, 101, 115, 116, 32, 72, 111, 115, 112, 105, 116, 97, 108>>

(***************************************************************************)
(* Numbers                                                                 *)
(***************************************************************************)

\* A float quotient n / d * 100 is kept exact as the fraction (n * 100) / d.
Fraction(n, d) == [num |-> n, den |-> d]

\* the literal 0 the code returns when the denominator is 0
Zero == Fraction(0, 1)

\* the mutant of Percentage that divides whatever the denominator
PercentageUnguarded(count, total) == Fraction(count * 100, total)

\* (count / total * 100) if total > 0 else 0
Percentage(count, total) ==
  IF total > 0 THEN Fraction(count * 100, total) ELSE Zero

(***************************************************************************)
(* clean_emoji_text                                                        *)
(***************************************************************************)

\* membership in the character class of emoji_pattern
InEmojiPattern(c) ==
  \/ c >= 128512 /\ c <= 128591   \* U+1F600-U+1F64F emoticons
  \/ c >= 127744 /\ c <= 128511   \* U+1F300-U+1F5FF symbols & pictographs
  \/ c >= 128640 /\ c <= 128767   \* U+1F680-U+1F6FF transport & map symbols
  \/ c >= 127462 /\ c <= 127487   \* U+1F1E0-U+1F1FF flags
  \/ c >= 9986 /\ c <= 10160      \* U+2702-U+27B0 dingbats
  \/ c >= 9410 /\ c <= 127569     \* U+24C2-U+1F251

\* emoji_pattern.sub('', text).strip()
clean_emoji_text(text) ==
  Strip(SelectSeq(text, LAMBDA c : ~InEmojiPattern(c)))

(***************************************************************************)
(* categorize_discharge_from_collection                                    *)
(***************************************************************************)

Categories == {"critical_home", "stable_home", "critical_referred", "died", "other"}

\* the branch for source == 'discharges'
DischargesRules(rec) ==
  LET discharge_status == Lower(Get(rec, "dischargeStatus", <<>>))
      discharge_type == Lower(Get(rec, "dischargeType", <<>>))
  IN  IF discharge_status = P_critical /\ discharge_type = P_home THEN "critical_home"
      ELSE IF discharge_status = P_stable /\ discharge_type = P_home THEN "stable_home"
      ELSE IF discharge_status = P_critical /\ discharge_type = P_referred
        THEN "critical_referred"
      ELSE IF discharge_type = P_died THEN "died"
      ELSE "other"

\* the key the babyBackUp branch reads the free-text status from
BackUpStatusKey == "dischargedStatusString"

\* the mutant of BackUpChain that tests 'critical' before 'stable'
BackUpChainCriticalFirst(discharge_status_string, discharge_status_lower, cleaned_lower) ==
  IF Contains(discharge_status_lower, P_critical_and_discharged) THEN "critical_home"
  ELSE IF \/ Contains(discharge_status_lower, P_referred_out)
          \/ Contains(discharge_status_lower, P_critical)
    THEN "critical_referred"
  ELSE IF \/ Contains(discharge_status_lower, P_discharged_according_to_criteria)
          \/ Contains(discharge_status_lower, P_stable)
    THEN "stable_home"
  ELSE IF \/ Contains(discharge_status_string, P_hindi_died_before_discharge)
          \/ Contains(discharge_status_lower, P_died_before_discharge)
          \/ Contains(discharge_status_string, P_hindi_death)
          \/ Contains(discharge_status_lower, P_death)
    THEN "died"
  ELSE "other"

\* the if/elif chain of the babyBackUp branch over the strings it is given
BackUpChain(discharge_status_string, discharge_status_lower, cleaned_lower) ==
  IF Contains(discharge_status_lower, P_critical_and_discharged) THEN "critical_home"
  ELSE IF \/ Contains(discharge_status_lower, P_discharged_according_to_criteria)
          \/ Contains(discharge_status_lower, P_stable)
    THEN "stable_home"
  ELSE IF \/ Contains(discharge_status_lower, P_referred_out)
          \/ Contains(discharge_status_lower, P_critical)
    THEN "critical_referred"
  ELSE IF \/ Contains(discharge_status_string, P_hindi_died_before_discharge)
          \/ Contains(discharge_status_lower, P_died_before_discharge)
          \/ Contains(discharge_status_string, P_hindi_death)
          \/ Contains(discharge_status_lower, P_death)
    THEN "died"
  ELSE "other"

\* the branch for source == 'babyBackUp'
BackUpRules(rec) ==
  LET discharge_status_string == Get(rec, BackUpStatusKey, <<>>)
      cleaned_string == clean_emoji_text(discharge_status_string)
      discharge_status_lower == Lower(discharge_status_string)
      cleaned_lower == Lower(cleaned_string)
  IN  BackUpChain(discharge_status_string, discharge_status_lower, cleaned_lower)

categorize_discharge_from_collection(rec, src) ==
  IF src = "discharges" THEN DischargesRules(rec)
  ELSE IF src = "babyBackUp" THEN BackUpRules(rec)
  ELSE "other"

(***************************************************************************)
(* calculate_discharge_outcomes                                            *)
(***************************************************************************)

EmptyCategories == [c \in Categories |-> [count |-> 0, babies |-> <<>>]]

\* the mutant of Skip that forgets the UIDs already seen
SkipOnlyEmpty(uid, processed_uids) == uid = ""

\* if not uid or uid in processed_uids: continue
Skip(uid, processed_uids) == uid = "" \/ uid \in processed_uids

\* discharge_categories[category]['count'] += 1; ...['babies'].append(entry)
AddToCategory(acc, uid, cat, entry) ==
  [processed_uids |-> acc.processed_uids \cup {uid},
   categories |-> [acc.categories EXCEPT
                     ![cat] = [count |-> @.count + 1,
                               babies |-> Append(@.babies, entry)]]]

\* the loop over discharge_data
RECURSIVE DischargeLoop(_, _)
DischargeLoop(discharges, acc) ==
  IF discharges = <<>> THEN acc
  ELSE LET discharge == Head(discharges)
           uid == Get(discharge, "UID", "")
       IN  IF Skip(uid, acc.processed_uids)
             THEN DischargeLoop(Tail(discharges), acc)
             ELSE DischargeLoop(Tail(discharges),
                    AddToCategory(acc, uid,
                      categorize_discharge_from_collection(discharge, "discharges"),
                      [UID |-> uid,
                       source |-> "discharges collection",
                       discharge_record |-> TRUE,
                       baby_data |-> discharge]))

\* the loop over babybackup_data
RECURSIVE BackUpLoop(_, _)
BackUpLoop(babies, acc) ==
  IF babies = <<>> THEN acc
  ELSE LET baby == Head(babies)
           uid == Get(baby, "UID", "")
       IN  IF Skip(uid, acc.processed_uids)
             THEN BackUpLoop(Tail(babies), acc)
             ELSE BackUpLoop(Tail(babies),
                    AddToCategory(acc, uid,
                      categorize_discharge_from_collection(baby, "babyBackUp"),
                      [UID |-> uid,
                       dischargeStatusString |-> Get(baby, "dischargeStatusString", <<>>),
                       source |-> "babyBackUp collection",
                       discharge_record |-> FALSE,
                       baby_data |-> baby]))

\* sum(cat['count'] for cat in discharge_categories.values())
TotalCount(categories) ==
  categories["critical_home"].count + categories["stable_home"].count
    + categories["critical_referred"].count + categories["died"].count
    + categories["other"].count

calculate_discharge_outcomes(babies, discharges) ==
  LET after_discharges ==
        DischargeLoop(discharges,
                      [processed_uids |-> {}, categories |-> EmptyCategories])
      babybackup_data ==
        SelectSeq(babies, LAMBDA baby : Get(baby, "source", "") = "babyBackUp")
      final == BackUpLoop(babybackup_data, after_discharges)
      discharge_categories == final.categories
      total_discharged == TotalCount(discharge_categories)
  IN  [categories |-> discharge_categories,
       total_discharged |-> total_discharged,
       unique_babies_processed |-> Cardinality(final.processed_uids),
       critical_home_percentage |->
         Percentage(discharge_categories["critical_home"].count, total_discharged),
       stable_home_percentage |->
         Percentage(discharge_categories["stable_home"].count, total_discharged),
       critical_referred_percentage |->
         Percentage(discharge_categories["critical_referred"].count, total_discharged),
       died_percentage |->
         Percentage(discharge_categories["died"].count, total_discharged)]

(***************************************************************************)
(* Values of a field that holds a boolean in some documents and a text in  *)
(* others: filledCorrectly, kmcfilledcorrectly                             *)
(***************************************************************************)

NoneValue == [type |-> "NoneType"]

Bool(b) == [type |-> "bool", val |-> b]

Str(s) == [type |-> "str", val |-> s]

Number(n) == [type |-> "int", val |-> n]

\* v is True
IsTrue(v) == v.type = "bool" /\ v.val

\* v is False
IsFalse(v) == v.type = "bool" /\ ~v.val

(***************************************************************************)
(* calculate_kmc_verification_monitoring                                   *)
(***************************************************************************)

Statuses == {"correct", "incorrect", "unable_to_verify", "not_verified"}

\* the fallback for a non-empty string kmcfilledcorrectly
StringStatus(kmc_filled_correctly) ==
  LET kmc_lower == Lower(kmc_filled_correctly)
  IN  IF kmc_lower = P_correct \/ kmc_lower = P_true THEN "correct"
      ELSE IF kmc_lower = P_incorrect \/ kmc_lower = P_false THEN "incorrect"
      ELSE IF Contains(kmc_lower, P_unable) THEN "unable_to_verify"
      ELSE "not_verified"

\* the mutant of PriorityStatus that looks at the flags before the comment
PriorityStatusFlagsFirst(mne_comment, filled_correctly, kmc_filled_correctly) ==
  IF IsTrue(filled_correctly) THEN "correct"
  ELSE IF IsFalse(filled_correctly) THEN "incorrect"
  ELSE IF mne_comment # <<>> /\ Strip(mne_comment) # <<>> THEN "incorrect"
  ELSE IF IsTrue(kmc_filled_correctly) THEN "correct"
  ELSE IF IsFalse(kmc_filled_correctly) THEN "incorrect"
  ELSE IF kmc_filled_correctly.type = "str" /\ kmc_filled_correctly.val # <<>>
    THEN StringStatus(kmc_filled_correctly.val)
  ELSE "not_verified"

\* the priority logic: status = 'not_verified', then the if/elif chain
PriorityStatus(mne_comment, filled_correctly, kmc_filled_correctly) ==
  IF mne_comment # <<>> /\ Strip(mne_comment) # <<>> THEN "incorrect"
  ELSE IF IsTrue(filled_correctly) THEN "correct"
  ELSE IF IsFalse(filled_correctly) THEN "incorrect"
  ELSE IF IsTrue(kmc_filled_correctly) THEN "correct"
  ELSE IF IsFalse(kmc_filled_correctly) THEN "incorrect"
  ELSE IF kmc_filled_correctly.type = "str" /\ kmc_filled_correctly.val # <<>>
    THEN StringStatus(kmc_filled_correctly.val)
  ELSE "not_verified"

\* the status of one observation entry
VerificationStatus(obs_day) ==
  PriorityStatus(Get(obs_day, "mnecomment", <<>>),
                 Get(obs_day, "filledCorrectly", NoneValue),
                 Get(obs_day, "kmcfilledcorrectly", NoneValue))

\* the mutant of CountStatus that leaves not_verified entries uncounted
CountStatusButDefault(stats, status) ==
  IF status = "not_verified"
    THEN [stats EXCEPT !.total_observations = @ + 1]
    ELSE [stats EXCEPT !.total_observations = @ + 1, ![status] = @ + 1]

\* verification_stats['total_observations'] += 1; verification_stats[status] += 1
CountStatus(stats, status) ==
  [stats EXCEPT !.total_observations = @ + 1, ![status] = @ + 1]

\* the loop over the observation entries of one baby
RECURSIVE ObservationLoop(_, _, _)
ObservationLoop(observation_days, baby, acc) ==
  IF observation_days = <<>> THEN acc
  ELSE LET obs_day == Head(observation_days)
           status == VerificationStatus(obs_day)
       IN  ObservationLoop(Tail(observation_days), baby,
             [acc EXCEPT
                !.verification_stats = CountStatus(@, status),
                !.detailed_data =
                   Append(@, [UID |-> Get(baby, "UID", ""),
                              status |-> status,
                              filledCorrectly |-> Get(obs_day, "filledCorrectly", NoneValue),
                              kmcfilledcorrectly |->
                                Get(obs_day, "kmcfilledcorrectly", NoneValue),
                              mnecomment |-> Get(obs_day, "mnecomment", <<>>)])])

\* the loop over baby_data
RECURSIVE VerificationLoop(_, _)
VerificationLoop(babies, acc) ==
  IF babies = <<>> THEN acc
  ELSE LET baby == Head(babies)
           uid == Get(baby, "UID", "")
       IN  IF Skip(uid, acc.processed_uids) THEN VerificationLoop(Tail(babies), acc)
           ELSE VerificationLoop(Tail(babies),
                  ObservationLoop(Get(baby, "observationDay", <<>>), baby,
                                  [acc EXCEPT !.processed_uids = @ \cup {uid}]))

calculate_kmc_verification_monitoring(babies) ==
  LET final ==
        VerificationLoop(babies,
          [processed_uids |-> {},
           verification_stats |-> [correct |-> 0, incorrect |-> 0,
                                   unable_to_verify |-> 0, not_verified |-> 0,
                                   total_observations |-> 0],
           detailed_data |-> <<>>])
  IN  [verification_stats |-> final.verification_stats,
       detailed_data |-> final.detailed_data,
       total_babies |-> Cardinality(final.processed_uids)]

(***************************************************************************)
(* check_kmc_stability                                                     *)
(***************************************************************************)

\* the loop over the observation entries
RECURSIVE StabilityLoop(_, _)
StabilityLoop(observation_days, acc) ==
  IF observation_days = <<>> THEN acc
  ELSE LET obs_day == Head(observation_days)
           kmc_time == Get(obs_day, "totalKMCtimeDay", 0)
           danger_sign == Get(obs_day, "dangerSign", <<>>)
       IN  StabilityLoop(Tail(observation_days),
             [has_kmc_hours |-> acc.has_kmc_hours \/ kmc_time > 0,
              total_kmc_time |->
                IF kmc_time > 0 THEN acc.total_kmc_time + kmc_time
                                ELSE acc.total_kmc_time,
              is_unstable |->
                \/ acc.is_unstable
                \/ Get(obs_day, "unstableForKMC", FALSE)
                \/ Contains(danger_sign, P_unstable_for_kmc)])

\* the mutant of check_kmc_stability that looks at the minutes only
StabilityByMinutesOnly(baby) ==
  LET final ==
        StabilityLoop(Get(baby, "observationDay", <<>>),
                      [has_kmc_hours |-> FALSE, is_unstable |-> FALSE,
                       total_kmc_time |-> 0])
  IN  IF final.total_kmc_time = 0 THEN "unstable" ELSE "stable"

check_kmc_stability(baby) ==
  LET final ==
        StabilityLoop(Get(baby, "observationDay", <<>>),
                      [has_kmc_hours |-> FALSE, is_unstable |-> FALSE,
                       total_kmc_time |-> 0])
  IN  IF final.is_unstable \/ final.total_kmc_time = 0 THEN "unstable" ELSE "stable"

(***************************************************************************)
(* convert_unix_to_datetime                                                *)
(*                                                                         *)
(* A numeric timestamp is a whole multiple of 1000 and is held as that     *)
(* multiple (1_700_000_000_000 is 1700000000), which keeps the             *)
(* millisecond values within TLC's integers; 0 stands for a missing, None  *)
(* or zero timestamp, all falsy.  A datetime is [days, secs]: whole days   *)
(* since the epoch and the second of the day, in the one time zone of the  *)
(* process, taken as UTC.  datetime.fromtimestamp raises ValueError for an *)
(* instant after the year 9999; the raise is the value ValueError, which   *)
(* no caller catches.                                                      *)
(***************************************************************************)

\* 1000 * MaxTimestamp seconds is the last whole thousand of the year 9999
\* (253402300799 is 9999-12-31 23:59:59)
MaxTimestamp == 253402300

ValueError == [raised |-> "ValueError"]

\* datetime.fromtimestamp(v) for v seconds
FromSeconds(v) == [days |-> v \div 86400, secs |-> v % 86400]

\* datetime.fromtimestamp(1000 * k): 1000 k = 86400 * (5 k \div 432) + 200 * (5 k % 432)
FromThousands(k) ==
  [days |-> 5 * (k \div 432) + (5 * (k % 432)) \div 432,
   secs |-> 200 * ((5 * (k % 432)) % 432)]

\* <<>> is None; timestamp > 1000000000000 is timestamp / 1000 seconds
convert_unix_to_datetime(timestamp) ==
  IF timestamp = 0 THEN <<>>
  ELSE IF timestamp > 1000000000 THEN <<FromSeconds(timestamp)>>
  ELSE IF timestamp > MaxTimestamp THEN <<ValueError>>
  ELSE <<FromThousands(timestamp)>>

\* (a - b).total_seconds()
TotalSeconds(a, b) == (a.days - b.days) * 86400 + (a.secs - b.secs)

\* d + timedelta(days=n)
PlusDays(d, n) == [days |-> d.days + n, secs |-> d.secs]

\* x in ['<Hindi: this hospital>', 'this hospital']
IsInbornPlace(place_of_delivery) ==
  place_of_delivery \in {P_yah_aspatal, P_this_hospital}

\* sum of the integers f[i], i in 1..Len(f)
RECURSIVE Sum(_)
Sum(f) == IF f = <<>> THEN 0 ELSE Head(f) + Sum(Tail(f))

(***************************************************************************)
(* calculate_registration_timeliness                                       *)
(***************************************************************************)

\* baby.get('registrationDate') or
\*   baby.get('registrationDataType', {}).get('registrationDate')
RegistrationTimestamp(baby) ==
  IF Get(baby, "registrationDate", 0) # 0 THEN baby.registrationDate
  ELSE Get(Get(baby, "registrationDataType", <<>>), "registrationDate", 0)

\* the mutant of Within24h that takes a negative lag
Within24hOrBefore(lag) == lag <= 24 * 3600

\* 0 <= time_diff <= 24, time_diff in hours, over the lag in seconds
Within24h(lag) == 0 <= lag /\ lag <= 24 * 3600

\* the mutant of Within12h that is not nested in the 24h test
Within12hNotNested(lag) == lag <= 12 * 3600

\* the nested test time_diff <= 12
Within12h(lag) == Within24h(lag) /\ lag <= 12 * 3600

\* the registration lag of one baby in seconds, <<>> without both instants
RegistrationLag(baby) ==
  LET birth_time == convert_unix_to_datetime(Get(baby, "dateOfBirth", 0))
      reg_time == convert_unix_to_datetime(RegistrationTimestamp(baby))
  IN  IF birth_time # <<>> /\ reg_time # <<>>
        THEN <<TotalSeconds(reg_time[1], birth_time[1])>>
        ELSE <<>>

calculate_registration_timeliness(babies) ==
  LET inborn_babies ==
        SelectSeq(babies, LAMBDA baby : IsInbornPlace(Get(baby, "placeOfDelivery", <<>>)))
      within_24h ==
        Cardinality({i \in 1..Len(inborn_babies) :
                       /\ RegistrationLag(inborn_babies[i]) # <<>>
                       /\ Within24h(RegistrationLag(inborn_babies[i])[1])})
      within_12h ==
        Cardinality({i \in 1..Len(inborn_babies) :
                       /\ RegistrationLag(inborn_babies[i]) # <<>>
                       /\ Within12h(RegistrationLag(inborn_babies[i])[1])})
      total_inborn == Len(inborn_babies)
  IN  [total_inborn |-> total_inborn,
       within_24h_count |-> within_24h,
       within_24h_percentage |-> Percentage(within_24h, total_inborn),
       within_12h_count |-> within_12h,
       within_12h_percentage |-> Percentage(within_12h, total_inborn)]

(***************************************************************************)
(* calculate_kmc_initiation_metrics                                        *)
(***************************************************************************)

\* the loop that finds the first KMC session: <<>> is first_kmc_date None
RECURSIVE FirstKmcLoop(_, _, _)
FirstKmcLoop(observation_days, birth_date, first_kmc_date) ==
  IF observation_days = <<>> THEN first_kmc_date
  ELSE LET obs_day == Head(observation_days)
           kmc_date == PlusDays(birth_date, Get(obs_day, "ageDay", 0))
       IN  IF /\ Get(obs_day, "totalKMCtimeDay", 0) > 0
              /\ \/ first_kmc_date = <<>>
                 \/ TotalSeconds(kmc_date, first_kmc_date[1]) < 0
             THEN FirstKmcLoop(Tail(observation_days), birth_date, <<kmc_date>>)
             ELSE FirstKmcLoop(Tail(observation_days), birth_date, first_kmc_date)

\* the loop over baby_data that fills initiation_data; hours are whole
\* because first_kmc_date is birth_date plus whole days
RECURSIVE InitiationLoop(_, _)
InitiationLoop(babies, initiation_data) ==
  IF babies = <<>> THEN initiation_data
  ELSE LET baby == Head(babies)
           uid == Get(baby, "UID", "")
           birth_date == convert_unix_to_datetime(Get(baby, "dateOfBirth", 0))
           first_kmc_date ==
             FirstKmcLoop(Get(baby, "observationDay", <<>>), birth_date[1], <<>>)
       IN  IF uid = "" \/ birth_date = <<>> \/ first_kmc_date = <<>>
             THEN InitiationLoop(Tail(babies), initiation_data)
             ELSE InitiationLoop(Tail(babies),
                    Append(initiation_data,
                      [UID |-> uid,
                       birth_date |-> birth_date[1],
                       first_kmc_date |-> first_kmc_date[1],
                       time_to_initiation_hours |->
                         TotalSeconds(first_kmc_date[1], birth_date[1]) \div 3600,
                       is_inborn |-> IsInbornPlace(Get(baby, "placeOfDelivery", <<>>)),
                       current_location |->
                         Get(baby, "currentLocationOfTheBaby", "Unknown")]))

\* len([d for d in data if d['time_to_initiation_hours'] <= hours])
CountWithin(data, hours) ==
  Cardinality({i \in 1..Len(data) : data[i].time_to_initiation_hours <= hours})

\* sum(d['time_to_initiation_hours'] for d in data) / len(data)
AverageHours(data) ==
  Fraction(Sum([i \in 1..Len(data) |-> data[i].time_to_initiation_hours]), Len(data))

\* the statistics of one non-empty segment
SegmentStats(data) ==
  [count |-> Len(data),
   avg_time_hours |-> AverageHours(data),
   within_24h_count |-> CountWithin(data, 24),
   within_48h_count |-> CountWithin(data, 48),
   within_24h_percentage |-> Fraction(CountWithin(data, 24) * 100, Len(data)),
   within_48h_percentage |-> Fraction(CountWithin(data, 48) * 100, Len(data))]

\* the empty dict {}
EmptyDict == <<>>

\* stats = {}; if data: stats = {...}
StatsIfAny(data) == IF data # <<>> THEN SegmentStats(data) ELSE EmptyDict

calculate_kmc_initiation_metrics(babies) ==
  LET initiation_data == InitiationLoop(babies, <<>>)
      total_babies == Len(initiation_data)
      inborn_data == SelectSeq(initiation_data, LAMBDA d : d.is_inborn)
      outborn_data == SelectSeq(initiation_data, LAMBDA d : ~d.is_inborn)
      locations == {inborn_data[i].current_location : i \in 1..Len(inborn_data)}
  IN  IF initiation_data = <<>>
        THEN [total_babies_with_kmc |-> 0,
              avg_time_to_initiation_hours |-> Zero,
              within_24h_count |-> 0,
              within_24h_percentage |-> Zero,
              within_48h_count |-> 0,
              within_48h_percentage |-> Zero,
              initiation_data |-> <<>>,
              inborn_stats |-> EmptyDict,
              outborn_stats |-> EmptyDict,
              inborn_location_stats |-> EmptyDict]
        ELSE [total_babies_with_kmc |-> total_babies,
              avg_time_to_initiation_hours |-> AverageHours(initiation_data),
              within_24h_count |-> CountWithin(initiation_data, 24),
              within_24h_percentage |->
                Fraction(CountWithin(initiation_data, 24) * 100, total_babies),
              within_48h_count |-> CountWithin(initiation_data, 48),
              within_48h_percentage |->
                Fraction(CountWithin(initiation_data, 48) * 100, total_babies),
              initiation_data |-> initiation_data,
              inborn_stats |-> StatsIfAny(inborn_data),
              outborn_stats |-> StatsIfAny(outborn_data),
              inborn_location_stats |->
                [location \in locations |->
                   SegmentStats(SelectSeq(inborn_data,
                                  LAMBDA d : d.current_location = location))]]

(***************************************************************************)
(* calculate_hospital_stay_duration                                        *)
(*                                                                         *)
(* A stay is held in whole seconds; stay_duration_days is that over 86400  *)
(* and the average of a location is total seconds over 86400 * count, kept *)
(* exact.  The code works in binary floating point: where the average sits *)
(* on a whole hour and the quotients are not binary fractions, the float   *)
(* may fall just below it, and int() then gives one hour less; that        *)
(* outcome is the choice below[location].  avg_formatted                   *)
(* f"{days} days {hours} hours" is held as its two numbers.                *)
(***************************************************************************)

\* the discharge instant by source, <<>> for None
StayDischargeDate(baby) ==
  LET source_tag == Get(baby, "source", "")
  IN  IF source_tag = "baby"
        THEN convert_unix_to_datetime(Get(baby, "lastDischargeDate", 0))
        ELSE IF source_tag = "babyBackUp"
          THEN convert_unix_to_datetime(Get(baby, "dischargeDate", 0))
          ELSE <<>>

\* the mutant of StayCounted that takes a discharge at the birth instant
StayCountedFromBirth(birth_date, discharge_date) ==
  discharge_date # <<>> /\ TotalSeconds(discharge_date[1], birth_date[1]) >= 0

\* discharge_date and discharge_date > birth_date
StayCounted(birth_date, discharge_date) ==
  discharge_date # <<>> /\ TotalSeconds(discharge_date[1], birth_date[1]) > 0

\* the loop over baby_data; the UID is recorded before the dates are read
RECURSIVE StayLoop(_, _, _)
StayLoop(babies, processed_uids, stay_data) ==
  IF babies = <<>> THEN stay_data
  ELSE LET baby == Head(babies)
           uid == Get(baby, "UID", "")
           birth_date == convert_unix_to_datetime(Get(baby, "dateOfBirth", 0))
           discharge_date == StayDischargeDate(baby)
       IN  IF Skip(uid, processed_uids)
             THEN StayLoop(Tail(babies), processed_uids, stay_data)
           ELSE IF birth_date = <<>> \/ ~StayCounted(birth_date, discharge_date)
             THEN StayLoop(Tail(babies), processed_uids \cup {uid}, stay_data)
           ELSE StayLoop(Tail(babies), processed_uids \cup {uid},
                  Append(stay_data,
                    [UID |-> uid,
                     hospital |-> Get(baby, "hospitalName", P_Unknown),
                     location |-> Get(baby, "currentLocationOfTheBaby", "Unknown"),
                     stay_seconds |-> TotalSeconds(discharge_date[1], birth_date[1]),
                     birth_date |-> birth_date[1],
                     discharge_date |-> discharge_date[1],
                     source |-> Get(baby, "source", "")]))

RECURSIVE GCD(_, _)
GCD(a, b) == IF b = 0 THEN a ELSE GCD(b, a % b)

RECURSIVE IsPowerOfTwo(_)
IsPowerOfTwo(n) == n = 1 \/ (n % 2 = 0 /\ IsPowerOfTwo(n \div 2))

\* n / d is a binary fraction, which a float holds exactly
IsBinaryFraction(n, d) == IsPowerOfTwo(d \div GCD(n, d))

\* days = int(avg_days_float); hours = int((avg_days_float - days) * 24),
\* for the average total / (86400 * count); one hour less when the float
\* fell below a whole hour
FormatAverage(durations, below) ==
  LET total == Sum(durations)
      unit == 86400 * Len(durations)
      whole_hours == total \div (3600 * Len(durations))
      on_the_hour == total % (3600 * Len(durations)) = 0
      exact == /\ IsBinaryFraction(total, unit)
               /\ \A i \in 1..Len(durations) : IsBinaryFraction(durations[i], 86400)
      hours == IF on_the_hour /\ ~exact /\ below THEN whole_hours - 1 ELSE whole_hours
  IN  [days |-> hours \div 24, hours |-> hours % 24]

\* the statistics of one location
StayStats(stay_data, location, below) ==
  LET records == SelectSeq(stay_data, LAMBDA r : r.location = location)
      durations == [i \in 1..Len(records) |-> records[i].stay_seconds]
  IN  [durations |-> durations,
       count |-> Len(records),
       total_days |-> Fraction(Sum(durations), 86400),
       avg_days |-> Fraction(Sum(durations), 86400 * Len(records)),
       avg_formatted |-> FormatAverage(durations, below)]

calculate_hospital_stay_duration(babies, below) ==
  LET stay_data == StayLoop(babies, {}, <<>>)
      locations == {stay_data[i].location : i \in 1..Len(stay_data)}
  IN  [location_stats |->
         [location \in locations |-> StayStats(stay_data, location, below[location])],
       raw_data |-> stay_data,
       total_babies |-> Len(stay_data)]

(***************************************************************************)
(* calculate_death_rates                                                   *)
(***************************************************************************)

\* d[key] += 1 on a dict of counters, the key added at 0 when it is new
Increment(d, key) ==
  IF key \in DOMAIN d THEN [d EXCEPT ![key] = @ + 1] ELSE d @@ (key :> 1)

\* the key added at 0 when it is new
WithKey(d, key) == IF key \in DOMAIN d THEN d ELSE d @@ (key :> 0)

\* location_analysis[location]['total'] += 1, and ['deaths'] for a dead baby
CountAt(d, key, is_dead) ==
  LET old == IF key \in DOMAIN d THEN d[key] ELSE [total |-> 0, deaths |-> 0]
      new == [total |-> old.total + 1,
              deaths |-> old.deaths + (IF is_dead THEN 1 ELSE 0)]
  IN  IF key \in DOMAIN d THEN [d EXCEPT ![key] = new] ELSE d @@ (key :> new)

\* the first discharge record with the UID, <<>> for None
MatchingDischarge(discharges, uid) ==
  LET hits == SelectSeq(discharges, LAMBDA discharge : Get(discharge, "UID", "") = uid)
  IN  IF hits = <<>> THEN <<>> ELSE <<Head(hits)>>

\* the category of a dead baby; a discharge record that is an empty dict is
\* falsy like None
DeadBabyCategory(baby, uid, discharges) ==
  LET matching_discharge == MatchingDischarge(discharges, uid)
  IN  IF matching_discharge # <<>> /\ DOMAIN matching_discharge[1] # {}
        THEN categorize_discharge_from_collection(matching_discharge[1], "discharges")
      ELSE IF Get(baby, "source", "") = "babyBackUp"
        THEN categorize_discharge_from_collection(baby, "babyBackUp")
      ELSE "other"

\* baby.get('deadBaby') == True
\* the mutant of IsDead that takes every baby for alive
NeverDead(baby) == FALSE

IsDead(baby) == Get(baby, "deadBaby", FALSE)

\* the keys of a dict in the order they were added
AppendNew(keys, key) ==
  IF \E i \in 1..Len(keys) : keys[i] = key THEN keys ELSE Append(keys, key)

\* the loop over baby_data
RECURSIVE DeathLoop(_, _, _)
DeathLoop(babies, discharges, acc) ==
  IF babies = <<>> THEN acc
  ELSE LET baby == Head(babies)
           uid == Get(baby, "UID", "")
           hospital == Get(baby, "hospitalName", P_Unknown)
           is_dead == IsDead(baby)
           inborn == IsInbornPlace(Get(baby, "placeOfDelivery", <<>>))
           location == Get(baby, "currentLocationOfTheBaby", "Unknown")
           stability == check_kmc_stability(baby)
           dead == IF is_dead THEN 1 ELSE 0
       IN  IF Skip(uid, acc.processed_uids) THEN DeathLoop(Tail(babies), discharges, acc)
           ELSE DeathLoop(Tail(babies), discharges,
                  [processed_uids |-> acc.processed_uids \cup {uid},
                   hospitals |-> AppendNew(acc.hospitals, hospital),
                   hospital_totals |-> Increment(acc.hospital_totals, hospital),
                   hospital_deaths |->
                     IF is_dead THEN Increment(acc.hospital_deaths, hospital)
                                ELSE WithKey(acc.hospital_deaths, hospital),
                   inborn_total |-> acc.inborn_total + (IF inborn THEN 1 ELSE 0),
                   inborn_deaths |-> acc.inborn_deaths + (IF inborn THEN dead ELSE 0),
                   outborn_total |-> acc.outborn_total + (IF inborn THEN 0 ELSE 1),
                   outborn_deaths |-> acc.outborn_deaths + (IF inborn THEN 0 ELSE dead),
                   location_analysis |-> CountAt(acc.location_analysis, location, is_dead),
                   kmc_stability |-> CountAt(acc.kmc_stability, stability, is_dead),
                   categories |->
                     IF is_dead
                       THEN AddToCategory(acc, uid,
                              DeadBabyCategory(baby, uid, discharges),
                              [UID |-> uid,
                               dischargeStatusString |->
                                 Get(baby, "dischargeStatusString", <<>>),
                               source |-> Get(baby, "source", "Unknown"),
                               baby_data |-> baby]).categories
                       ELSE acc.categories])

\* (deaths / total * 100) if total > 0 else 0, per hospital in key order
HospitalRates(hospitals, hospital_totals, hospital_deaths) ==
  [i \in 1..Len(hospitals) |->
     Percentage(hospital_deaths[hospitals[i]], hospital_totals[hospitals[i]])]

calculate_death_rates(babies, discharges) ==
  LET final ==
        DeathLoop(babies, discharges,
          [processed_uids |-> {},
           hospitals |-> <<>>,
           hospital_totals |-> <<>>,
           hospital_deaths |-> <<>>,
           inborn_total |-> 0, inborn_deaths |-> 0,
           outborn_total |-> 0, outborn_deaths |-> 0,
           location_analysis |-> <<>>,
           kmc_stability |-> [stable |-> [total |-> 0, deaths |-> 0],
                              unstable |-> [total |-> 0, deaths |-> 0]],
           categories |-> EmptyCategories])
      total_babies == Cardinality(final.processed_uids)
      dead_babies == Cardinality({i \in 1..Len(babies) : IsDead(babies[i])})
  IN  [total_babies |-> total_babies,
       dead_babies |-> dead_babies,
       mortality_rate |-> Percentage(dead_babies, total_babies),
       hospital_data |->
         [hospitals |-> final.hospitals,
          totals |-> [i \in 1..Len(final.hospitals) |->
                        final.hospital_totals[final.hospitals[i]]],
          deaths |-> [i \in 1..Len(final.hospitals) |->
                        final.hospital_deaths[final.hospitals[i]]],
          rates |-> HospitalRates(final.hospitals, final.hospital_totals,
                                  final.hospital_deaths)],
       birth_place |->
         [inborn |-> [total |-> final.inborn_total, deaths |-> final.inborn_deaths],
          outborn |-> [total |-> final.outborn_total, deaths |-> final.outborn_deaths]],
       discharge_outcomes |->
         [categories |-> final.categories,
          total_discharged |-> TotalCount(final.categories),
          unique_babies_processed |-> dead_babies],
       location_analysis |-> final.location_analysis,
       kmc_stability |-> final.kmc_stability]

(***************************************************************************)
(* calculate_average_kmc_by_location                                       *)
(*                                                                         *)
(* The key of a group is the text f"{hospital}-{location}", so that the    *)
(* location is a text here.  location_hospital_data is its keys in         *)
(* insertion order and the record of each key.                             *)
(***************************************************************************)

\* "-"
P_hyphen == <<45>>

\* key = f"{hospital}-{location}"
GroupKey(hospital, location) == hospital \o P_hyphen \o location

\* the mutant of InWindow that leaves end_date out
InWindowBeforeEnd(start_date, obs_date, end_date) ==
  start_date <= obs_date /\ obs_date < end_date

\* start_date <= obs_date <= end_date
InWindow(start_date, obs_date, end_date) ==
  start_date <= obs_date /\ obs_date <= end_date

\* the loop over the observation entries of one baby: the minutes and the
\* days it adds to its group
RECURSIVE WindowLoop(_, _, _, _, _)
WindowLoop(observation_days, birth_date, start_date, end_date, acc) ==
  IF observation_days = <<>> THEN acc
  ELSE LET obs_day == Head(observation_days)
           rest == Tail(observation_days)
           obs_date == birth_date.days + Get(obs_day, "ageDay", 0)
           kmc_minutes == Get(obs_day, "totalKMCtimeDay", 0)
       IN  IF "ageDay" \notin DOMAIN obs_day
             THEN WindowLoop(rest, birth_date, start_date, end_date, acc)
           ELSE IF InWindow(start_date, obs_date, end_date) /\ kmc_minutes > 0
             THEN WindowLoop(rest, birth_date, start_date, end_date,
                    [total_kmc_minutes |-> acc.total_kmc_minutes + kmc_minutes,
                     observation_days |-> acc.observation_days + 1])
           ELSE WindowLoop(rest, birth_date, start_date, end_date, acc)

\* the loop over baby_data
RECURSIVE AverageLoop(_, _, _, _)
AverageLoop(babies, start_date, end_date, acc) ==
  IF babies = <<>> THEN acc
  ELSE LET baby == Head(babies)
           hospital == Get(baby, "hospitalName", P_Unknown)
           location == Get(baby, "currentLocationOfTheBaby", P_Unknown)
           birth_date == convert_unix_to_datetime(Get(baby, "dateOfBirth", 0))
           key == GroupKey(hospital, location)
           old == IF key \in DOMAIN acc.data
                    THEN acc.data[key]
                    ELSE [hospital |-> hospital, location |-> location,
                          total_kmc_minutes |-> 0, observation_days |-> 0,
                          baby_count |-> 0]
           added == WindowLoop(Get(baby, "observationDay", <<>>), birth_date[1],
                               start_date, end_date,
                               [total_kmc_minutes |-> 0, observation_days |-> 0])
           new == [hospital |-> old.hospital, location |-> old.location,
                   total_kmc_minutes |-> old.total_kmc_minutes + added.total_kmc_minutes,
                   observation_days |-> old.observation_days + added.observation_days,
                   baby_count |->
                     old.baby_count + (IF added.observation_days > 0 THEN 1 ELSE 0)]
       IN  IF birth_date = <<>>
             THEN AverageLoop(Tail(babies), start_date, end_date, acc)
             ELSE AverageLoop(Tail(babies), start_date, end_date,
                    [keys |-> AppendNew(acc.keys, key),
                     data |-> IF key \in DOMAIN acc.data
                                THEN [acc.data EXCEPT ![key] = new]
                                ELSE acc.data @@ (key :> new)])

\* result_data: one row per key with observation_days > 0
RECURSIVE AverageRows(_, _)
AverageRows(keys, data) ==
  IF keys = <<>> THEN <<>>
  ELSE LET d == data[Head(keys)]
       IN  IF d.observation_days > 0
             THEN <<[hospital |-> d.hospital,
                     location |-> d.location,
                     avg_hours_per_day |->
                       Fraction(d.total_kmc_minutes, d.observation_days * 60),
                     avg_hours_per_baby |->
                       IF d.baby_count > 0
                         THEN Fraction(d.total_kmc_minutes, d.baby_count * 60)
                         ELSE Zero,
                     baby_count |-> d.baby_count,
                     observation_days |-> d.observation_days]>>
                    \o AverageRows(Tail(keys), data)
             ELSE AverageRows(Tail(keys), data)

calculate_average_kmc_by_location(babies, start_date, end_date) ==
  LET final == AverageLoop(babies, start_date, end_date,
                           [keys |-> <<>>, data |-> <<>>])
  IN  AverageRows(final.keys, final.data)

(***************************************************************************)
(* calculate_daily_kmc_analysis                                            *)
(*                                                                         *)
(* A date is its day number; strftime('%Y-%m-%d') writes it as a text.     *)
(* analysis_data and excluded_counts are dicts over the three date keys,   *)
(* added in the order today - 1, today - 2, today - 3.                     *)
(***************************************************************************)

\* the year, month and day of a day number of the proleptic Gregorian
\* calendar, day 0 being 1970-01-01
CivilFromDays(days) ==
  LET z == days + 719468
      era == z \div 146097
      doe == z % 146097
      yoe == (doe - doe \div 1460 + doe \div 36524 - doe \div 146096) \div 365
      doy == doe - (365 * yoe + yoe \div 4 - yoe \div 100)
      mp == (5 * doy + 2) \div 153
      month == IF mp < 10 THEN mp + 3 ELSE mp - 9
  IN  [year |-> yoe + era * 400 + (IF month <= 2 THEN 1 ELSE 0),
       month |-> month,
       day |-> doy - (153 * mp + 2) \div 5 + 1]

\* the decimal digits of n, zero-padded to a width
RECURSIVE Digits(_, _)
Digits(n, width) ==
  IF width = 0 THEN <<>> ELSE Append(Digits(n \div 10, width - 1), 48 + (n % 10))

\* target_date.strftime('%Y-%m-%d')
DateKey(days) ==
  LET civil == CivilFromDays(days)
  IN  Digits(civil.year, 4) \o P_hyphen \o Digits(civil.month, 2) \o P_hyphen
        \o Digits(civil.day, 2)

\* a < b on str
RECURSIVE TextLess(_, _)
TextLess(a, b) ==
  IF b = <<>> THEN FALSE
  ELSE IF a = <<>> THEN TRUE
  ELSE IF Head(a) # Head(b) THEN Head(a) < Head(b)
  ELSE TextLess(Tail(a), Tail(b))

\* sorted(list(set(...)))
RECURSIVE SortedTexts(_)
SortedTexts(texts) ==
  IF texts = {} THEN <<>>
  ELSE LET least == CHOOSE t \in texts : \A u \in texts \ {t} : TextLess(t, u)
       IN  <<least>> \o SortedTexts(texts \ {least})

\* the values of a field of the batch that are truthy
TruthyTexts(babies, field) ==
  {Get(babies[i], field, <<>>) : i \in 1..Len(babies)} \ {<<>>}

\* the loop over the observation entries of one baby for one date
RECURSIVE DailyEntryLoop(_, _, _, _)
DailyEntryLoop(observation_days, birth_date, target_date, cell) ==
  IF observation_days = <<>> THEN cell
  ELSE LET obs_day == Head(observation_days)
           obs_date == birth_date.days + Get(obs_day, "ageDay", 0)
       IN  IF "ageDay" \notin DOMAIN obs_day
             THEN DailyEntryLoop(Tail(observation_days), birth_date, target_date, cell)
           ELSE IF obs_date = target_date /\ Get(obs_day, "totalKMCtimeDay", 0) > 0
             THEN DailyEntryLoop(Tail(observation_days), birth_date, target_date,
                    [total_kmc_minutes |->
                       cell.total_kmc_minutes + obs_day.totalKMCtimeDay,
                     baby_count |-> cell.baby_count + 1])
           ELSE DailyEntryLoop(Tail(observation_days), birth_date, target_date, cell)

\* the mutant of DischargedOn that counts no discharge
DischargedNever(baby, target_date) == FALSE

\* discharge_date and discharge_date.date() == target_date
DischargedOn(baby, target_date) ==
  LET last_discharge_date == Get(baby, "lastDischargeDate", 0)
      discharge_date == convert_unix_to_datetime(last_discharge_date)
  IN  /\ last_discharge_date # 0
      /\ discharge_date # <<>>
      /\ discharge_date[1].days = target_date

\* the loop over baby_data for one date
RECURSIVE DailyLoop(_, _, _, _, _)
DailyLoop(babies, hospitals, locations, target_date, acc) ==
  IF babies = <<>> THEN acc
  ELSE LET baby == Head(babies)
           hospital == Get(baby, "hospitalName", <<>>)
           location == Get(baby, "currentLocationOfTheBaby", <<>>)
           birth_date == convert_unix_to_datetime(Get(baby, "dateOfBirth", 0))
           rest == Tail(babies)
       IN  IF \/ hospital \notin hospitals
              \/ location \notin locations
              \/ Get(baby, "observationDay", <<>>) = <<>>
             THEN DailyLoop(rest, hospitals, locations, target_date, acc)
           ELSE IF birth_date = <<>>
             THEN DailyLoop(rest, hospitals, locations, target_date, acc)
           ELSE IF DischargedOn(baby, target_date)
             THEN DailyLoop(rest, hospitals, locations, target_date,
                            [acc EXCEPT !.excluded = @ + 1])
           ELSE DailyLoop(rest, hospitals, locations, target_date,
                  [acc EXCEPT !.cells[hospital][location] =
                     DailyEntryLoop(baby.observationDay, birth_date[1],
                                    target_date, @)])

\* the totals of one date before the averages
DailyTotals(babies, target_date) ==
  LET hospitals == TruthyTexts(babies, "hospitalName")
      locations == TruthyTexts(babies, "currentLocationOfTheBaby")
  IN  DailyLoop(babies, hospitals, locations, target_date,
                [cells |-> [hospital \in hospitals |->
                              [location \in locations |->
                                 [total_kmc_minutes |-> 0, baby_count |-> 0]]],
                 excluded |-> 0])

\* total / count / 60 lies midway between two tenths, and is not a float:
\* the quotient is then (2 k + 1) / 20 with 2 k + 1 no multiple of 5
IsFloatTie(total, count) ==
  /\ total % (6 * count) = 3 * count
  /\ (2 * (total \div (6 * count)) + 1) % 5 # 0

\* round(total / count / 60, 1) in tenths: to the nearest tenth; midway
\* between two, to the even one when the quotient is a float, and to the one
\* the float of the quotient is nearer to when it is not
RoundTenths(total, count, up) ==
  LET tenths == total \div (6 * count)
      rest == total % (6 * count)
  IN  IF rest < 3 * count THEN tenths
      ELSE IF rest > 3 * count THEN tenths + 1
      ELSE IF IsFloatTie(total, count) THEN (IF up THEN tenths + 1 ELSE tenths)
      ELSE IF tenths % 2 = 0 THEN tenths
      ELSE tenths + 1

\* the cell of the report: average_kmc_hours stays 0 when baby_count is 0
DailyCell(cell, up) ==
  [total_kmc_minutes |-> cell.total_kmc_minutes,
   baby_count |-> cell.baby_count,
   average_kmc_hours |->
     IF cell.baby_count > 0
       THEN Fraction(RoundTenths(cell.total_kmc_minutes, cell.baby_count, up), 10)
       ELSE Zero]

\* up: the side the float of each quotient (2 k + 1) / 20 lies on, by k
calculate_daily_kmc_analysis(babies, today_date, up) ==
  LET hospitals == TruthyTexts(babies, "hospitalName")
      locations == TruthyTexts(babies, "currentLocationOfTheBaby")
      offsets == {1, 2, 3}
      keys == {DateKey(today_date - day_offset) : day_offset \in offsets}
      TargetOf(date_key) ==
        CHOOSE target_date \in {today_date - day_offset : day_offset \in offsets} :
          DateKey(target_date) = date_key
  IN  [analysis_data |->
         [date_key \in keys |->
            LET totals == DailyTotals(babies, TargetOf(date_key))
            IN  [hospital \in hospitals |->
                   [location \in locations |->
                      LET cell == totals.cells[hospital][location]
                      IN  DailyCell(cell,
                            IF /\ cell.baby_count > 0
                               /\ IsFloatTie(cell.total_kmc_minutes, cell.baby_count)
                              THEN up[cell.total_kmc_minutes
                                        \div (6 * cell.baby_count)]
                              ELSE FALSE)]]],
       hospitals |-> SortedTexts(hospitals),
       locations |-> SortedTexts(locations),
       excluded_counts |->
         [date_key \in keys |-> DailyTotals(babies, TargetOf(date_key)).excluded]]

(***************************************************************************)
(* Numeric fields that hold a value of any type                            *)
(*                                                                         *)
(* In the documents of this part totalKMCtimeDay and numberSkinContact     *)
(* hold a value with its type: a number, a str or None.  A comparison of a *)
(* str or of None with 0 raises TypeError; the raise of a function is the  *)
(* value TypeError, what it returns without raising is Returned(value).    *)
(***************************************************************************)

TypeError == [raised |-> "TypeError"]

Returned(value) == [returned |-> value]

\* kmc_time > 0 is evaluated, and not raised, for a number only
Comparable(value) == value.type = "int"

\* an observation entry reaches 'obs_day.get('totalKMCtimeDay', 0) > 0'
\* with a value that is no number
RaisesOnMinutes(baby) ==
  LET entries == Get(baby, "observationDay", <<>>)
  IN  \E k \in 1..Len(entries) :
        /\ "totalKMCtimeDay" \in DOMAIN entries[k]
        /\ ~Comparable(entries[k].totalKMCtimeDay)

\* the record with its minutes as the numbers they are
WithNumbers(baby) ==
  [key \in DOMAIN baby |->
     IF key = "observationDay"
       THEN [k \in 1..Len(baby.observationDay) |->
               [field \in DOMAIN baby.observationDay[k] |->
                  IF field = "totalKMCtimeDay"
                    THEN baby.observationDay[k][field].val
                    ELSE baby.observationDay[k][field]]]
       ELSE baby[key]]

\* check_kmc_stability(baby) for minutes of any type
CheckedStability(baby) ==
  IF RaisesOnMinutes(baby) THEN TypeError
  ELSE Returned(check_kmc_stability(WithNumbers(baby)))

\* the babies whose observation entries calculate_kmc_initiation_metrics
\* reads: with a UID and a birth date
ReachesFirstKmcLoop(baby) ==
  /\ Get(baby, "UID", "") # ""
  /\ convert_unix_to_datetime(Get(baby, "dateOfBirth", 0)) # <<>>

\* calculate_kmc_initiation_metrics(baby_data) for minutes of any type
CheckedInitiation(babies) ==
  IF \E i \in 1..Len(babies) : ReachesFirstKmcLoop(babies[i]) /\ RaisesOnMinutes(babies[i])
    THEN TypeError
    ELSE Returned(calculate_kmc_initiation_metrics(
                    [i \in 1..Len(babies) |->
                       IF RaisesOnMinutes(babies[i]) THEN babies[i]
                       ELSE WithNumbers(babies[i])]))

(***************************************************************************)
(* calculate_skin_contact_metrics                                          *)
(***************************************************************************)

IsDigit(c) == 48 <= c /\ c <= 57

\* the number a text of decimal digits writes
RECURSIVE DecimalValue(_)
DecimalValue(s) ==
  IF s = <<>> THEN 0 ELSE 10 * DecimalValue(SubSeq(s, 1, Len(s) - 1)) + (s[Len(s)] - 48)

\* float(number_skin_contact): <<>> when it raises ValueError or TypeError.
\* Of the texts float reads, those of decimal digits within whitespace are
\* read here; the texts of the documents are such texts or hold no number
Float(value) ==
  IF value.type = "int" THEN <<value.val>>
  ELSE IF value.type = "str"
    THEN LET s == Strip(value.val)
         IN  IF s # <<>> /\ \A i \in 1..Len(s) : IsDigit(s[i])
               THEN <<DecimalValue(s)>>
               ELSE <<>>
  ELSE <<>>

\* the loop over the followUp array of one baby
RECURSIVE SkinContactEntryLoop(_, _, _)
SkinContactEntryLoop(followup_array, baby, skin_contact_data) ==
  IF followup_array = <<>> THEN skin_contact_data
  ELSE LET followup_entry == Head(followup_array)
           followup_number == Get(followup_entry, "followUpNumber", 0)
           number_skin_contact == Get(followup_entry, "numberSkinContact", NoneValue)
           skin_contact_value == Float(number_skin_contact)
       IN  IF followup_number = 28
             THEN SkinContactEntryLoop(Tail(followup_array), baby, skin_contact_data)
           ELSE IF number_skin_contact.type = "NoneType" \/ skin_contact_value = <<>>
             THEN SkinContactEntryLoop(Tail(followup_array), baby, skin_contact_data)
           ELSE SkinContactEntryLoop(Tail(followup_array), baby,
                  Append(skin_contact_data,
                    [UID |-> baby.UID,
                     hospital |-> Get(baby, "hospitalName", P_Unknown),
                     numberSkinContact |-> skin_contact_value[1],
                     followUpNumber |-> followup_number]))

\* the loop over baby_data
RECURSIVE SkinContactLoop(_, _)
SkinContactLoop(babies, acc) ==
  IF babies = <<>> THEN acc
  ELSE LET baby == Head(babies)
           uid == Get(baby, "UID", "")
       IN  IF Skip(uid, acc.processed_uids) THEN SkinContactLoop(Tail(babies), acc)
           ELSE SkinContactLoop(Tail(babies),
                  [processed_uids |-> acc.processed_uids \cup {uid},
                   skin_contact_data |->
                     SkinContactEntryLoop(Get(baby, "followUp", <<>>), baby,
                                          acc.skin_contact_data)])

calculate_skin_contact_metrics(babies) ==
  LET skin_contact_data ==
        SkinContactLoop(babies, [processed_uids |-> {}, skin_contact_data |-> <<>>])
          .skin_contact_data
      values == [i \in 1..Len(skin_contact_data) |->
                   skin_contact_data[i].numberSkinContact]
      ValueSet == {values[i] : i \in 1..Len(values)}
  IN  IF skin_contact_data = <<>>
        THEN [total_babies_with_data |-> 0,
              average_skin_contact |-> Zero,
              min_skin_contact |-> 0,
              max_skin_contact |-> 0,
              skin_contact_data |-> <<>>,
              high_skin_contact_alerts |-> <<>>]
        ELSE [total_babies_with_data |-> Len(skin_contact_data),
              average_skin_contact |-> Fraction(Sum(values), Len(values)),
              min_skin_contact |-> CHOOSE v \in ValueSet : \A w \in ValueSet : v <= w,
              max_skin_contact |-> CHOOSE v \in ValueSet : \A w \in ValueSet : w <= v,
              skin_contact_data |-> skin_contact_data,
              high_skin_contact_alerts |->
                SelectSeq(skin_contact_data, LAMBDA d : d.numberSkinContact > 10)]

(***************************************************************************)
(* calculate_individual_critical_reasons                                   *)
(*                                                                         *)
(* criticalReasons is a text.  ast.literal_eval is modelled on the texts   *)
(* whose only characters outside quotes are brackets, commas and spaces,   *)
(* and that hold no backslash: such a text is a literal exactly when it is *)
(* a list display of string literals.  The outer except of lines 851-867   *)
(* is not reached for a text: nothing in the try block raises.             *)
(***************************************************************************)

\* the index of the first c in s at or after i, 0 when there is none
RECURSIVE IndexFrom(_, _, _)
IndexFrom(s, c, i) ==
  IF i > Len(s) THEN 0 ELSE IF s[i] = c THEN i ELSE IndexFrom(s, c, i + 1)

IsQuote(c) == c \in {39, 34}

SyntaxError == [ok |-> FALSE, value |-> <<>>]

\* the list display read from s[i]; after_item: the last thing read was an
\* item (a comma, a closing bracket or a further string literal, which is
\* concatenated, may follow), else it was the opening bracket or a comma
RECURSIVE ListDisplay(_, _, _, _)
ListDisplay(s, i, items, after_item) ==
  IF i > Len(s) THEN SyntaxError
  ELSE IF s[i] = 32 THEN ListDisplay(s, i + 1, items, after_item)
  ELSE IF s[i] = 93
    THEN IF i = Len(s) THEN [ok |-> TRUE, value |-> items] ELSE SyntaxError
  ELSE IF s[i] = 44
    THEN IF after_item THEN ListDisplay(s, i + 1, items, FALSE)
                       ELSE SyntaxError
  ELSE IF IsQuote(s[i])
    THEN LET close == IndexFrom(s, s[i], i + 1)
             literal == SubSeq(s, i + 1, close - 1)
         IN  IF close = 0 THEN SyntaxError
             ELSE IF after_item
               THEN ListDisplay(s, close + 1,
                      [items EXCEPT ![Len(items)] = @ \o literal], TRUE)
               ELSE ListDisplay(s, close + 1, Append(items, literal), TRUE)
  ELSE SyntaxError

\* ast.literal_eval(critical_reasons_str) of a text that starts with '['
literal_eval(s) == ListDisplay(s, 2, <<>>, FALSE)

\* re.findall(r"'([^']*)'", s) from position i
RECURSIVE FindAllQuoted(_, _)
FindAllQuoted(s, i) ==
  LET open == IndexFrom(s, 39, i)
      close == IF open = 0 THEN 0 ELSE IndexFrom(s, 39, open + 1)
  IN  IF close = 0 THEN <<>>
      ELSE <<SubSeq(s, open + 1, close - 1)>> \o FindAllQuoted(s, close + 1)

\* the mutant of ReasonsList that never splits the text
ReasonsListWhole(critical_reasons_str) == <<critical_reasons_str>>

\* reasons_list of a stripped text
ReasonsList(critical_reasons_str) ==
  IF /\ critical_reasons_str # <<>>
     /\ critical_reasons_str[1] = 91
     /\ critical_reasons_str[Len(critical_reasons_str)] = 93
    THEN LET parsed == literal_eval(critical_reasons_str)
         IN  IF parsed.ok THEN parsed.value
                          ELSE FindAllQuoted(critical_reasons_str, 1)
    ELSE <<critical_reasons_str>>

\* the loop over reasons_list: each reason that is not blank is counted
RECURSIVE ReasonLoop(_, _, _)
ReasonLoop(reasons_list, entry, individual_reasons) ==
  IF reasons_list = <<>> THEN individual_reasons
  ELSE LET reason == Strip(Head(reasons_list))
           old == IF reason \in DOMAIN individual_reasons
                    THEN individual_reasons[reason]
                    ELSE [count |-> 0, babies |-> <<>>]
           new == [count |-> old.count + 1, babies |-> Append(old.babies, entry)]
       IN  IF reason = <<>>
             THEN ReasonLoop(Tail(reasons_list), entry, individual_reasons)
             ELSE ReasonLoop(Tail(reasons_list), entry,
                    IF reason \in DOMAIN individual_reasons
                      THEN [individual_reasons EXCEPT ![reason] = new]
                      ELSE individual_reasons @@ (reason :> new))

\* the mutant of NoReasons that takes a blank text for reasons
NoReasonsWhenEmpty(critical_reasons_field) == critical_reasons_field = <<>>

\* if not critical_reasons_field or not str(critical_reasons_field).strip()
NoReasons(critical_reasons_field) == Strip(critical_reasons_field) = <<>>

\* the loop over discharge_data: a record left out for its field leaves
\* processed_uids as it was
RECURSIVE CriticalReasonsLoop(_, _)
CriticalReasonsLoop(discharges, acc) ==
  IF discharges = <<>> THEN acc
  ELSE LET discharge == Head(discharges)
           uid == Get(discharge, "UID", "")
           critical_reasons_field == Get(discharge, "criticalReasons", <<>>)
           critical_reasons_str == Strip(critical_reasons_field)
           entry == [UID |-> uid,
                     hospital |-> Get(discharge, "hospitalName", P_Unknown),
                     dischargeStatus |-> Get(discharge, "dischargeStatus", P_Unknown),
                     full_reasons |-> critical_reasons_str]
       IN  IF Skip(uid, acc.processed_uids) \/ NoReasons(critical_reasons_field)
             THEN CriticalReasonsLoop(Tail(discharges), acc)
             ELSE CriticalReasonsLoop(Tail(discharges),
                    [processed_uids |-> acc.processed_uids \cup {uid},
                     total_babies_with_reasons |-> acc.total_babies_with_reasons + 1,
                     individual_reasons |->
                       ReasonLoop(ReasonsList(critical_reasons_str), entry,
                                  acc.individual_reasons)])

calculate_individual_critical_reasons(discharges) ==
  LET final == CriticalReasonsLoop(discharges,
                 [processed_uids |-> {}, total_babies_with_reasons |-> 0,
                  individual_reasons |-> <<>>])
  IN  [individual_reasons |-> final.individual_reasons,
       total_babies_with_reasons |-> final.total_babies_with_reasons,
       total_unique_reasons |-> Cardinality(DOMAIN final.individual_reasons)]

(***************************************************************************)
(* calculate_followup_metrics                                              *)
(***************************************************************************)

\* list(followup_requirements.keys())
FollowupTypes == <<"Follow up 2", "Follow up 7", "Follow up 14", "Follow up 28">>

\* followup_requirements: the due offset in days and the followUpNumber
FollowupRequirement(followup_name) ==
  CASE followup_name = "Follow up 2" -> [days_from_discharge |-> 3, followup_number |-> 2]
    [] followup_name = "Follow up 7" -> [days_from_discharge |-> 7, followup_number |-> 7]
    [] followup_name = "Follow up 14" ->
         [days_from_discharge |-> 14, followup_number |-> 14]
    [] followup_name = "Follow up 28" -> [days_from_birth |-> 29, followup_number |-> 28]

\* a or b or c over timestamps: the first that is not falsy
FirstTruthy(a, b, c) == IF a # 0 THEN a ELSE IF b # 0 THEN b ELSE c

\* the discharge date of a baby whose lastDischargeType is set and not 'died'
FollowupDischargeDate(baby) ==
  LET last_discharge_type == Get(baby, "lastDischargeType", <<>>)
  IN  IF last_discharge_type # <<>> /\ Lower(last_discharge_type) # P_died
        THEN convert_unix_to_datetime(
               FirstTruthy(Get(baby, "dischargeDate", 0),
                           Get(baby, "lastDischargeDate", 0),
                           Get(baby, "actualDischargeDate", 0)))
        ELSE <<>>

\* the due date of one follow-up as a day number, <<>> when not eligible
DueDate(baby, followup_name) ==
  LET birth_date == convert_unix_to_datetime(Get(baby, "dateOfBirth", 0))
      discharge_date == FollowupDischargeDate(baby)
      req == FollowupRequirement(followup_name)
  IN  IF followup_name = "Follow up 28"
        THEN IF birth_date # <<>>
               THEN <<birth_date[1].days + req.days_from_birth>> ELSE <<>>
        ELSE IF discharge_date # <<>>
               THEN <<discharge_date[1].days + req.days_from_discharge>> ELSE <<>>

\* an entry of the followUp array carries this followUpNumber
FollowupCompleted(baby, followup_number) ==
  LET followup_array == Get(baby, "followUp", <<>>)
  IN  \E i \in 1..Len(followup_array) :
        Get(followup_array[i], "followUpNumber", 0) = followup_number

\* the mutant of OverdueBy that counts a follow-up due today
OverdueByToday(due_date, today_date) == due_date <= today_date

\* due_date <= yesterday, yesterday = datetime.now().date() - timedelta(days=1)
OverdueBy(due_date, today_date) == due_date <= today_date - 1

\* the counters of one hospital and one follow-up type after one baby
FollowupCount(stats, baby, followup_name, today_date) ==
  LET due_date == DueDate(baby, followup_name)
      completed ==
        FollowupCompleted(baby, FollowupRequirement(followup_name).followup_number)
  IN  IF due_date = <<>> THEN stats
      ELSE [eligible |-> stats.eligible + 1,
            completed |-> stats.completed + (IF completed THEN 1 ELSE 0),
            due |-> stats.due,
            overdue |-> stats.overdue
                          + (IF ~completed /\ OverdueBy(due_date[1], today_date)
                               THEN 1 ELSE 0)]

FollowupNames == {FollowupTypes[i] : i \in 1..Len(FollowupTypes)}

NoFollowupStats ==
  [n \in FollowupNames |-> [eligible |-> 0, completed |-> 0, due |-> 0, overdue |-> 0]]

\* the loop over baby_data; a dead baby is left before its UID is recorded
RECURSIVE FollowupLoop(_, _, _)
FollowupLoop(babies, today_date, acc) ==
  IF babies = <<>> THEN acc
  ELSE LET baby == Head(babies)
           uid == Get(baby, "UID", "")
           hospital == Get(baby, "hospitalName", P_Unknown)
           old == IF hospital \in DOMAIN acc.hospital_stats
                    THEN acc.hospital_stats[hospital] ELSE NoFollowupStats
           new == [n \in FollowupNames |-> FollowupCount(old[n], baby, n, today_date)]
       IN  IF Skip(uid, acc.processed_uids) \/ IsDead(baby)
             THEN FollowupLoop(Tail(babies), today_date, acc)
             ELSE FollowupLoop(Tail(babies), today_date,
                    [processed_uids |-> acc.processed_uids \cup {uid},
                     hospitals |-> AppendNew(acc.hospitals, hospital),
                     hospital_stats |->
                       IF hospital \in DOMAIN acc.hospital_stats
                         THEN [acc.hospital_stats EXCEPT ![hospital] = new]
                         ELSE acc.hospital_stats @@ (hospital :> new)])

\* followup_summary: one item per hospital and follow-up type with eligible > 0
RECURSIVE FollowupSummary(_, _, _)
FollowupSummary(hospitals, hospital_stats, i) ==
  IF hospitals = <<>> THEN <<>>
  ELSE IF i > Len(FollowupTypes) THEN FollowupSummary(Tail(hospitals), hospital_stats, 1)
  ELSE LET hospital == Head(hospitals)
           stats == hospital_stats[hospital][FollowupTypes[i]]
           rest == FollowupSummary(hospitals, hospital_stats, i + 1)
       IN  IF stats.eligible > 0
             THEN <<[hospital |-> hospital,
                     followup_type |-> FollowupTypes[i],
                     eligible |-> stats.eligible,
                     completed |-> stats.completed,
                     completion_rate |-> Fraction(stats.completed * 100, stats.eligible),
                     due |-> stats.due,
                     overdue |-> stats.overdue]>> \o rest
             ELSE rest

calculate_followup_metrics(followups, babies, today_date) ==
  LET final == FollowupLoop(babies, today_date,
                 [processed_uids |-> {}, hospitals |-> <<>>, hospital_stats |-> <<>>])
      followup_summary == FollowupSummary(final.hospitals, final.hospital_stats, 1)
      total_eligible ==
        Sum([i \in 1..Len(followup_summary) |-> followup_summary[i].eligible])
      total_completed ==
        Sum([i \in 1..Len(followup_summary) |-> followup_summary[i].completed])
  IN  [followup_types |-> FollowupTypes,
       total_eligible |-> total_eligible,
       total_completed |-> total_completed,
       overall_completion_rate |-> Percentage(total_completed, total_eligible),
       hospital_summary |-> followup_summary,
       unique_babies_processed |-> Cardinality(final.processed_uids)]

(***************************************************************************)
(* load_collection_with_retry                                              *)
(*                                                                         *)
(* The frame of a call holds its arguments, the local attempt, and what    *)
(* the call has done to the store and to the clock so far: the limit of    *)
(* each fetch (<<>> for a fetch with no limit) and the seconds of each     *)
(* sleep.  A collection is the sequence of its documents.                  *)
(***************************************************************************)

\* the mutant of Delay that is not capped
DelayUncapped(attempt) == 2 ^ attempt

\* delay = min(2 ** attempt, 10)
Delay(attempt) ==
  IF 2 ^ attempt < 10 THEN 2 ^ attempt ELSE 10

\* the limit of the fetch of an attempt, <<>> for none
FetchLimit(attempt, batch_size) ==
  IF attempt = 0 THEN <<>>
  ELSE IF attempt = 1 THEN <<batch_size>>
  ELSE IF attempt = 2 THEN <<50>>
  ELSE <<20>>

\* db.collection(collection_name).limit(n).get() when it does not raise
Fetch(collection, limit) ==
  IF limit = <<>> \/ Len(collection) <= limit[1] THEN collection
  ELSE SubSeq(collection, 1, limit[1])

\* the frame after the sleep and the fetch of the attempt
AfterAttempt(frame) ==
  [frame EXCEPT
     !.sleeps = IF frame.attempt > 0 THEN Append(@, Delay(frame.attempt)) ELSE @,
     !.fetches = Append(@, FetchLimit(frame.attempt, frame.args[3]))]

\* the loop is at the head of an iteration
Attempting ==
  /\ call.fn = "load_collection_with_retry"
  /\ returned = <<>>
  /\ call.attempt < call.args[2]

\* an iteration whose fetch returns: return docs
AttemptReturns ==
  /\ Attempting
  /\ call' = AfterAttempt(call)
  /\ returned' = <<Fetch(call.args[1], FetchLimit(call.attempt, call.args[3]))>>
  /\ UNCHANGED <<baby_data, discharge_data, reports, today>>

\* an iteration whose fetch raises: continue, or return [] after the last
AttemptRaises ==
  /\ Attempting
  /\ IF call.attempt < call.args[2] - 1
       THEN /\ call' = [AfterAttempt(call) EXCEPT !.attempt = @ + 1]
            /\ returned' = returned
       ELSE /\ call' = AfterAttempt(call)
            /\ returned' = <<(<<>>)>>
  /\ UNCHANGED <<baby_data, discharge_data, reports, today>>

(***************************************************************************)
(* load_firebase_data: one document at a time                              *)
(***************************************************************************)

\* the mutant of PassesHospitalFilter that keeps every baby
PassesEveryHospital(baby) == TRUE

\* hospital_name and not any(term in hospital_name for term in [...])
PassesHospitalFilter(baby) ==
  LET hospital_name == Lower(Get(baby, "hospitalName", <<>>))
  IN  /\ hospital_name # <<>>
      /\ ~Contains(hospital_name, P_test)
      /\ ~Contains(hospital_name, P_training)
      /\ ~Contains(hospital_name, P_demo)

\* data = doc.to_dict(); data['source'] = tag
Tagged(doc, tag) == [k \in DOMAIN doc \cup {"source"} |->
                       IF k = "source" THEN tag ELSE doc[k]]

\* data = doc.to_dict(); data['id'] = doc.id
WithId(doc) ==
  [k \in DOMAIN doc.data \cup {"id"} |-> IF k = "id" THEN doc.id ELSE doc.data[k]]

\* the documents of a collection as dicts, with the tag of the collection
LoadedFrom(docs, tag) == [i \in 1..Len(docs) |-> Tagged(WithId(docs[i]), tag)]

\* load_firebase_data() over the documents load_collection_with_retry
\* returns for the four collections
load_firebase_data(baby_docs, backup_docs, discharge_docs, followup_docs) ==
  LET loaded == LoadedFrom(baby_docs, "baby") \o LoadedFrom(backup_docs, "babyBackUp")
  IN  [baby_data |-> SelectSeq(loaded, LAMBDA baby : PassesHospitalFilter(baby)),
       discharge_data |-> [i \in 1..Len(discharge_docs) |-> WithId(discharge_docs[i])],
       followup_data |-> [i \in 1..Len(followup_docs) |-> WithId(followup_docs[i])]]

\* the baby collection is read before babyBackUp
NoBackUpYet == \A i \in 1..Len(baby_data) : baby_data[i].source = "baby"

\* the calculators main() runs, by the name of the local that holds the report
ReportNames ==
  {"discharge_outcomes", "kmc_verification", "reg_metrics", "kmc_initiation",
   "followup_metrics", "death_metrics", "critical_reasons_data", "stay_duration",
   "avg_kmc_data", "analysis_data", "skin_contact_metrics"}

NoReports == [n \in ReportNames |-> <<>>]

\* one document of the baby collection: tagged, kept unless its hospital is
\* filtered out
LoadBabyDoc(docs) ==
  /\ reports = NoReports
  /\ NoBackUpYet
  /\ Len(baby_data) < MaxBabies
  /\ \E doc \in docs :
       baby_data' = IF PassesHospitalFilter(doc)
                      THEN Append(baby_data, Tagged(doc, "baby"))
                      ELSE baby_data
  /\ UNCHANGED <<discharge_data, reports, call, returned, today>>

\* one document of the babyBackUp collection
LoadBackUpDoc(docs) ==
  /\ reports = NoReports
  /\ Len(baby_data) < MaxBabies
  /\ \E doc \in docs :
       baby_data' = IF PassesHospitalFilter(doc)
                      THEN Append(baby_data, Tagged(doc, "babyBackUp"))
                      ELSE baby_data
  /\ UNCHANGED <<discharge_data, reports, call, returned, today>>

\* one document of the discharges collection
LoadDischargeDoc(docs) ==
  /\ reports = NoReports
  /\ Len(discharge_data) < MaxDischarges
  /\ \E doc \in docs : discharge_data' = Append(discharge_data, doc)
  /\ UNCHANGED <<baby_data, reports, call, returned, today>>

(***************************************************************************)
(* main: the calculators                                                   *)
(***************************************************************************)

\* name = calculator(...)
Calculate(name, report) ==
  /\ reports[name] = <<>>
  /\ reports' = [reports EXCEPT ![name] = <<report>>]
  /\ UNCHANGED <<baby_data, discharge_data, call, returned, today>>

CalcDischargeOutcomes ==
  Calculate("discharge_outcomes",
            calculate_discharge_outcomes(baby_data, discharge_data))

CalcKmcVerification ==
  Calculate("kmc_verification", calculate_kmc_verification_monitoring(baby_data))

CalcRegistrationTimeliness ==
  Calculate("reg_metrics", calculate_registration_timeliness(baby_data))

CalcKmcInitiation ==
  Calculate("kmc_initiation", calculate_kmc_initiation_metrics(baby_data))

\* the follow_up collection is passed and never read; datetime.now().date()
\* is today
CalcFollowupMetrics ==
  Calculate("followup_metrics", calculate_followup_metrics(<<>>, baby_data, today))

CalcDeathRates ==
  Calculate("death_metrics", calculate_death_rates(baby_data, discharge_data))

(***************************************************************************)
(* Direct calls of the classifiers                                         *)
(***************************************************************************)

NoCall == [fn |-> "", args |-> <<>>]

Return(value) ==
  /\ returned = <<>>
  /\ returned' = <<value>>
  /\ UNCHANGED <<baby_data, discharge_data, reports, call, today>>

\* category = categorize_discharge_from_collection(record, source)
Categorize ==
  /\ call.fn = "categorize_discharge_from_collection"
  /\ Return(categorize_discharge_from_collection(call.args[1], call.args[2]))

\* kmc_status = check_kmc_stability(baby)
CheckKmcStability ==
  /\ call.fn = "check_kmc_stability"
  /\ Return(check_kmc_stability(call.args[1]))

\* the float average of each location may fall below its exact value
CalcStayDuration ==
  LET locations ==
        {Get(baby_data[i], "currentLocationOfTheBaby", "Unknown") :
           i \in 1..Len(baby_data)}
  IN  \E below \in [locations -> BOOLEAN] :
        Calculate("stay_duration", calculate_hospital_stay_duration(baby_data, below))

CalcCriticalReasons ==
  Calculate("critical_reasons_data",
            calculate_individual_critical_reasons(discharge_data))

\* avg_kmc_data = calculate_average_kmc_by_location(filtered_data, start_date,
\* end_date), the two dates of the date picker held in call.args
CalcAverageKmc ==
  /\ call.fn = "calculate_average_kmc_by_location"
  /\ Calculate("avg_kmc_data",
               calculate_average_kmc_by_location(baby_data, call.args[1],
                                                 call.args[2]))

\* the quotients (2 k + 1) / 20 of the cells of the three dates, by k
DailyTies ==
  LET hospitals == TruthyTexts(baby_data, "hospitalName")
      locations == TruthyTexts(baby_data, "currentLocationOfTheBaby")
      CellOf(c) == DailyTotals(baby_data, today - c[1]).cells[c[2]][c[3]]
  IN  {CellOf(c).total_kmc_minutes \div (6 * CellOf(c).baby_count) :
         c \in {d \in {1, 2, 3} \X hospitals \X locations :
                  /\ CellOf(d).baby_count > 0
                  /\ IsFloatTie(CellOf(d).total_kmc_minutes, CellOf(d).baby_count)}}

\* analysis_data, hospitals, locations, excluded_counts =
\* calculate_daily_kmc_analysis(filtered_data); datetime.now().date() is today
CalcDailyKmcAnalysis ==
  \E up \in [DailyTies -> BOOLEAN] :
    Calculate("analysis_data", calculate_daily_kmc_analysis(baby_data, today, up))

\* kmc_initiation = calculate_kmc_initiation_metrics(baby_data), over
\* documents whose minutes are of any type
CalcCheckedInitiation ==
  Calculate("kmc_initiation", CheckedInitiation(baby_data))

\* skin_contact_metrics = calculate_skin_contact_metrics(baby_data)
CalcSkinContact ==
  Calculate("skin_contact_metrics", calculate_skin_contact_metrics(baby_data))

\* kmc_status = check_kmc_stability(baby), for a baby of the batch
CheckStabilityOfLoaded ==
  \E i \in 1..Len(baby_data) : Return(CheckedStability(baby_data[i]))

\* the wall clock passes midnight, once or more
DateChanges(dates) ==
  /\ \E date \in dates : date > today /\ today' = date
  /\ UNCHANGED <<baby_data, discharge_data, reports, call, returned>>

\* baby_data, discharge_data, followup_data = load_firebase_data(), the
\* documents of the four collections held in call.args
LoadFirebaseData ==
  /\ call.fn = "load_firebase_data"
  /\ returned = <<>>
  /\ LET result == load_firebase_data(call.args[1], call.args[2], call.args[3],
                                      call.args[4])
     IN  /\ returned' = <<result>>
         /\ baby_data' = result.baby_data
         /\ discharge_data' = result.discharge_data
  /\ UNCHANGED <<reports, call, today>>

\* birth_time = convert_unix_to_datetime(timestamp)
ConvertUnixToDatetime ==
  /\ call.fn = "convert_unix_to_datetime"
  /\ Return(convert_unix_to_datetime(call.args[1]))

(***************************************************************************)
(* Inputs                                                                  *)
(***************************************************************************)

RECURSIVE Concat(_)
Concat(parts) == IF parts = <<>> THEN <<>> ELSE Head(parts) \o Concat(Tail(parts))

\* the texts put together from at most n of the given parts
TextsOf(parts, n) ==
  {Concat(ps) : ps \in UNION {[1..k -> parts] : k \in 0..n}}

StatusTexts ==
  {P_critical, T_Critical, T_CRITICAL_sp, T_sp_critical, P_stable, T_Stable, T_unknown}

TypeTexts ==
  {P_home, T_Home, T_sp_home_sp, P_referred, T_Referred, P_died, T_DIED, T_died_sp,
   T_unknown}

\* discharges documents for the classifier: both keys, one key, or none
DischargeRecords ==
  {[dischargeStatus |-> s, dischargeType |-> t] : s \in StatusTexts, t \in TypeTexts}
    \cup {[dischargeStatus |-> s] : s \in StatusTexts}
    \cup {[dischargeType |-> t] : t \in TypeTexts}
    \cup {[UID |-> "u1"]}

StatusParts ==
  {T_Critical, T_and_discharged, T_angel, P_stable, T_Referred_out, P_death,
   P_hindi_death, T_space, T_Discharged_according_to_criteria,
   P_died_before_discharge}

\* babyBackUp documents for the classifier
BackUpRecords ==
  {[dischargedStatusString |-> s] : s \in TextsOf(StatusParts, MaxParts)}
    \cup {[UID |-> "u1"]}

\* documents of the discharges collection
DischargeDocs ==
  {[UID |-> u, dischargeStatus |-> st[1], dischargeType |-> st[2]] :
     u \in {"u1", "u2"},
     st \in {<<P_critical, P_home>>, <<P_stable, T_DIED>>}}
    \cup {[UID |-> "", dischargeStatus |-> P_stable, dischargeType |-> P_home],
          [dischargeStatus |-> P_critical, dischargeType |-> P_referred]}

\* documents of the baby collection
BabyDocs ==
  {[UID |-> u, hospitalName |-> T_H1] : u \in {"u1", "u3"}}

\* documents of the babyBackUp collection
BackUpDocs ==
  {[UID |-> u, hospitalName |-> T_H1, dischargedStatusString |-> s] :
     u \in {"u1", "u2"}, s \in {P_stable, T_Referred_out}}
    \cup {[UID |-> "u3", hospitalName |-> T_H2,
           dischargeStatusString |-> T_Critical_and_discharged],
          [UID |-> "", hospitalName |-> T_H1, dischargedStatusString |-> P_death],
          [hospitalName |-> T_H2, dischargedStatusString |-> P_death]}

\* the sequences of at most n elements of S
SeqsUpTo(S, n) == UNION {[1..k -> S] : k \in 0..n}

\* a record with the keys whose value is given (<<>> leaves the key out)
Doc(fields) ==
  LET present == {k \in DOMAIN fields : fields[k] # <<>>}
  IN  [k \in present |-> fields[k][1]]

\* observation entries for the verification classifier: every combination of
\* comment, primary flag and secondary flag
VerificationEntries ==
  {Doc([mnecomment |-> c, filledCorrectly |-> f, kmcfilledcorrectly |-> k]) :
     c \in {<<>>, <<T_two_spaces>>, <<T_wrong_minutes>>},
     f \in {<<>>, <<Bool(TRUE)>>, <<Bool(FALSE)>>, <<Str(P_true)>>},
     k \in {<<>>, <<Bool(TRUE)>>, <<Bool(FALSE)>>, <<Str(T_Correct)>>, <<Str(T_TRUE)>>,
            <<Str(T_Incorrect)>>, <<Str(T_False)>>, <<Str(T_Unable_to_verify)>>,
            <<Str(T_sp_correct)>>, <<Str(T_unknown)>>, <<Str(<<>>)>>}}

\* baby batches for calculate_kmc_verification_monitoring: one baby with one
\* entry of every kind, and batches of babies with several entries, shared
\* UIDs and empty UIDs
VerificationBabies ==
  {[UID |-> "u1", observationDay |-> obs] :
     obs \in SeqsUpTo({[filledCorrectly |-> Bool(TRUE)],
                       [kmcfilledcorrectly |-> Str(T_Unable_to_verify)]}, MaxObs)}
    \cup
  {[UID |-> "u2", observationDay |-> obs] :
     obs \in SeqsUpTo({[mnecomment |-> T_wrong_minutes, filledCorrectly |-> Bool(TRUE)],
                       [kmcfilledcorrectly |-> Str(T_unknown)]}, MaxObs)}
    \cup
  {[UID |-> "", observationDay |-> <<[filledCorrectly |-> Bool(TRUE)]>>]}

VerificationBatches ==
  {<<[UID |-> "u1", observationDay |-> <<e>>]>> : e \in VerificationEntries}
    \cup SeqsUpTo(VerificationBabies, MaxBabies)

\* observation entries for check_kmc_stability
StabilityEntries ==
  {Doc([totalKMCtimeDay |-> m, unstableForKMC |-> u, dangerSign |-> d]) :
     m \in {<<>>, <<0>>, <<45>>},
     u \in {<<>>, <<TRUE>>, <<FALSE>>},
     d \in {<<>>, <<T_fever>>, <<T_fever \o T_space \o P_unstable_for_kmc>>}}

StabilityBabies ==
  {[UID |-> "u1", observationDay |-> obs] : obs \in SeqsUpTo(StabilityEntries, MaxObs)}
    \cup {[UID |-> "u1"]}

\* the birth instant of the timing documents: 1_700_000_000_000 ms
BirthMs == 1700000 * 1000

\* the same instant in seconds: 1_700_000_000 s
BirthS == 1700 * 1000

\* documents for the registration calculator: lags of 10 h, 12 h, 12 h 1 s,
\* 24 h, 24 h 1 s and -1 h; the nested registration field; a birth in
\* seconds; a place that is not canonical; a missing birth or registration
RegistrationDocs ==
  {[UID |-> "u1", hospitalName |-> T_H1, placeOfDelivery |-> P_this_hospital,
    dateOfBirth |-> BirthMs, registrationDate |-> BirthMs + lag] :
     lag \in {36000, 43200, 43201, 86400, 86401, 0 - 3600}}
    \cup
  {[UID |-> "u2", hospitalName |-> T_H1, placeOfDelivery |-> P_yah_aspatal,
    dateOfBirth |-> BirthMs,
    registrationDataType |-> [registrationDate |-> BirthMs + 7200]],
   [UID |-> "u2", hospitalName |-> T_H2, placeOfDelivery |-> P_this_hospital,
    dateOfBirth |-> BirthS, registrationDate |-> BirthMs + 36000],
   [UID |-> "u2", hospitalName |-> T_H2, placeOfDelivery |-> T_This_Hospital,
    dateOfBirth |-> BirthMs, registrationDate |-> BirthMs + 3600],
   [UID |-> "u3", hospitalName |-> T_H1, placeOfDelivery |-> P_this_hospital,
    registrationDate |-> BirthMs + 3600],
   [UID |-> "u3", hospitalName |-> T_H1, placeOfDelivery |-> P_this_hospital,
    dateOfBirth |-> BirthMs]}

\* documents for the initiation calculator: first sessions on day 0, 1, 2
\* and 3 of life, inborn and outborn, two locations, an empty UID, a missing
\* birth, an entry without minutes, an entry without ageDay
InitiationDocs ==
  {[UID |-> "u1", hospitalName |-> T_H1, placeOfDelivery |-> P_this_hospital,
    currentLocationOfTheBaby |-> "NICU", dateOfBirth |-> BirthMs,
    registrationDate |-> BirthMs + x[1], observationDay |-> x[2]] :
     x \in {<<36000, <<[ageDay |-> 1, totalKMCtimeDay |-> 60]>>>>,
            <<86400, <<[ageDay |-> 2, totalKMCtimeDay |-> 30]>>>>,
            <<86401, <<[ageDay |-> 3, totalKMCtimeDay |-> 45],
                       [ageDay |-> 0, totalKMCtimeDay |-> 0]>>>>}}
    \cup
  {[UID |-> "u2", hospitalName |-> T_H1, placeOfDelivery |-> P_yah_aspatal,
    currentLocationOfTheBaby |-> "PNC", dateOfBirth |-> BirthMs,
    observationDay |-> obs] :
     obs \in {<<[ageDay |-> 3, totalKMCtimeDay |-> 20],
                [ageDay |-> 0, totalKMCtimeDay |-> 15]>>,
              <<[ageDay |-> 3, totalKMCtimeDay |-> 45]>>}}
    \cup
  {[UID |-> "u2", hospitalName |-> T_H2, placeOfDelivery |-> T_other_hospital,
    currentLocationOfTheBaby |-> "NICU", dateOfBirth |-> BirthMs,
    observationDay |-> obs] :
     obs \in {<<[ageDay |-> 1, totalKMCtimeDay |-> 60]>>,
              <<[ageDay |-> 2, totalKMCtimeDay |-> 30],
                [ageDay |-> 4, totalKMCtimeDay |-> 30]>>}}
    \cup
  {[UID |-> "", hospitalName |-> T_H1, placeOfDelivery |-> P_this_hospital,
    dateOfBirth |-> BirthMs,
    observationDay |-> <<[ageDay |-> 1, totalKMCtimeDay |-> 60]>>],
   [UID |-> "u3", hospitalName |-> T_H1, placeOfDelivery |-> P_this_hospital,
    observationDay |-> <<[ageDay |-> 1, totalKMCtimeDay |-> 60]>>],
   [UID |-> "u3", hospitalName |-> T_H2, dateOfBirth |-> BirthMs,
    observationDay |-> <<[ageDay |-> 1]>>],
   [UID |-> "u3", hospitalName |-> T_H1, placeOfDelivery |-> P_this_hospital,
    currentLocationOfTheBaby |-> "NICU", dateOfBirth |-> BirthMs,
    observationDay |-> <<[totalKMCtimeDay |-> 60]>>]}

TimingDocs == RegistrationDocs \cup InitiationDocs

\* the day of BirthMs
BirthDay == FromSeconds(BirthMs).days

\* the date of the runs that do not vary it: after every due date
Today0 == BirthDay + 40

\* the dates the follow-up report is computed on: the days around the due
\* dates of a baby born on BirthDay and discharged the day after
TodayDates == {BirthDay + d : d \in {3, 4, 5, 8, 9, 29, 30}}

\* documents for the percentages: an inborn baby with a KMC session, a
\* discharge and a follow-up; a dead outborn baby; a baby with no dates; a
\* dead baby without UID; a baby of a test hospital
PercentDocs ==
  {[UID |-> "u1", hospitalName |-> T_H1, placeOfDelivery |-> P_this_hospital,
    currentLocationOfTheBaby |-> "NICU", dateOfBirth |-> BirthMs,
    registrationDate |-> BirthMs + 36000,
    observationDay |-> <<[ageDay |-> 1, totalKMCtimeDay |-> 60]>>,
    lastDischargeType |-> T_Home, dischargeDate |-> BirthMs + 86400,
    followUp |-> <<[followUpNumber |-> 2]>>,
    dischargedStatusString |-> P_stable],
   [UID |-> "u2", hospitalName |-> T_H2, placeOfDelivery |-> T_other_hospital,
    currentLocationOfTheBaby |-> "PNC", dateOfBirth |-> BirthMs,
    observationDay |-> <<[ageDay |-> 2, totalKMCtimeDay |-> 30]>>,
    deadBaby |-> TRUE, lastDischargeType |-> T_DIED,
    dischargedStatusString |-> P_death],
   [UID |-> "u3", hospitalName |-> T_H1, lastDischargeType |-> T_Referred,
    lastDischargeDate |-> BirthMs + 172800],
   [UID |-> "", hospitalName |-> T_H1, dateOfBirth |-> BirthMs, deadBaby |-> TRUE],
   [UID |-> "u3", hospitalName |-> T_Test_Hospital,
    placeOfDelivery |-> P_this_hospital, dateOfBirth |-> BirthMs,
    registrationDate |-> BirthMs + 3600]}

(***************************************************************************)
(* Specifications                                                          *)
(***************************************************************************)

NothingLoaded ==
  /\ baby_data = <<>>
  /\ discharge_data = <<>>
  /\ reports = NoReports

\* calculate_discharge_outcomes over loaded batches
InitOutcomes ==
  /\ NothingLoaded
  /\ call = NoCall
  /\ returned = <<>>
  /\ today = Today0

NextOutcomes ==
  \/ LoadBabyDoc(BabyDocs)
  \/ LoadBackUpDoc(BackUpDocs)
  \/ LoadDischargeDoc(DischargeDocs)
  \/ CalcDischargeOutcomes

SpecOutcomes == InitOutcomes /\ [][NextOutcomes]_vars

\* the timing calculators over loaded baby batches
NextTiming ==
  \/ LoadBabyDoc(TimingDocs)
  \/ LoadBackUpDoc(TimingDocs)
  \/ CalcRegistrationTimeliness
  \/ CalcKmcInitiation

SpecTiming == InitOutcomes /\ [][NextTiming]_vars

\* the criticalReasons texts: list displays of one and two tokens, padded,
\* with a trailing comma, with double quotes, with a padded, a repeated and
\* an empty token; the empty list; lists with unquoted items; a list that is
\* not closed; a single reason; a blank text
ReasonTexts ==
  {R_GA_weightLoss, R_weightLoss_GA, R_GA_list, R_padded_list, R_trailing_comma,
   R_double_quoted, R_GA_sp_GA, R_GA_GA, R_GA_empty, R_empty_list, R_unquoted,
   R_half_quoted, R_unclosed, R_GA, R_blank}

\* documents of the discharges collection for the critical reasons
ReasonDocs ==
  {[UID |-> "u1", hospitalName |-> T_H1, criticalReasons |-> text] :
     text \in ReasonTexts}
    \cup
  {[UID |-> "u2", dischargeStatus |-> P_critical, criticalReasons |-> text] :
     text \in {R_GA_weightLoss, R_GA, R_unquoted}}
    \cup
  {[UID |-> "u1", hospitalName |-> T_H1],
   [UID |-> "u2", criticalReasons |-> <<>>],
   [UID |-> "", criticalReasons |-> R_GA_list]}

\* calculate_individual_critical_reasons over loaded discharge batches
NextReasons ==
  \/ LoadDischargeDoc(ReasonDocs)
  \/ CalcCriticalReasons

SpecReasons == InitOutcomes /\ [][NextReasons]_vars

\* documents for the follow-up report: a baby discharged home the day after
\* its birth, with no follow-up, with follow-up 2, with follow-ups 7 and 28;
\* a baby never discharged; a dead baby with a follow-up; a referred baby
\* with no birth date and lastDischargeDate only; a live baby whose
\* lastDischargeType is 'DIED'; a baby with a discharge date and no
\* lastDischargeType; a baby without UID
FollowupDocs ==
  {[UID |-> "u1", hospitalName |-> T_H1, dateOfBirth |-> BirthMs,
    lastDischargeType |-> T_Home, dischargeDate |-> BirthMs + 86400,
    followUp |-> entries] :
     entries \in {<<>>, <<[followUpNumber |-> 2]>>,
                  <<[followUpNumber |-> 7], [followUpNumber |-> 28]>>}}
    \cup
  {[UID |-> "u2", hospitalName |-> T_H2, dateOfBirth |-> BirthMs],
   [UID |-> "u2", hospitalName |-> T_H1, dateOfBirth |-> BirthMs, deadBaby |-> TRUE,
    lastDischargeType |-> T_Home, dischargeDate |-> BirthMs + 86400,
    followUp |-> <<[followUpNumber |-> 2]>>],
   [UID |-> "u3", hospitalName |-> T_H1, lastDischargeType |-> T_Referred,
    lastDischargeDate |-> BirthMs + 86400, followUp |-> <<[followUpNumber |-> 2]>>],
   [UID |-> "u3", hospitalName |-> T_H2, dateOfBirth |-> BirthMs, deadBaby |-> FALSE,
    lastDischargeType |-> T_DIED, dischargeDate |-> BirthMs + 86400],
   [UID |-> "u1", hospitalName |-> T_H2, dateOfBirth |-> BirthMs,
    actualDischargeDate |-> BirthMs + 86400],
   [UID |-> "", hospitalName |-> T_H1, dateOfBirth |-> BirthMs,
    lastDischargeType |-> T_Home, dischargeDate |-> BirthMs + 86400]}

\* calculate_followup_metrics over loaded baby batches, on any of the dates
InitFollowup ==
  /\ NothingLoaded
  /\ call = NoCall
  /\ returned = <<>>
  /\ today \in TodayDates

NextFollowup ==
  \/ LoadBabyDoc(FollowupDocs)
  \/ LoadBackUpDoc(FollowupDocs)
  \/ CalcFollowupMetrics

SpecFollowup == InitFollowup /\ [][NextFollowup]_vars

\* documents for the stay report: stays of 26 h and of 1.9 days in the two
\* discharge fields; of 36 h in lastDischargeDate only; of 26 h 20 min; a
\* discharge at the birth instant and one before it; two days with no
\* location; no birth date; no UID; no discharge
StayDocs ==
  {[UID |-> "u1", hospitalName |-> T_H1, currentLocationOfTheBaby |-> "NICU",
    dateOfBirth |-> BirthMs, lastDischargeDate |-> BirthMs + 93600,
    dischargeDate |-> BirthMs + 164160],
   [UID |-> "u1", hospitalName |-> T_H1, currentLocationOfTheBaby |-> "NICU",
    dateOfBirth |-> BirthMs, lastDischargeDate |-> BirthMs + 129600],
   [UID |-> "u2", hospitalName |-> T_H2, currentLocationOfTheBaby |-> "NICU",
    dateOfBirth |-> BirthMs, lastDischargeDate |-> BirthMs + 94800,
    dischargeDate |-> BirthMs + 94800],
   [UID |-> "u2", hospitalName |-> T_H2, currentLocationOfTheBaby |-> "PNC",
    dateOfBirth |-> BirthMs, lastDischargeDate |-> BirthMs,
    dischargeDate |-> BirthMs - 3600],
   [UID |-> "u3", hospitalName |-> T_H1, dateOfBirth |-> BirthMs,
    lastDischargeDate |-> BirthMs + 172800, dischargeDate |-> BirthMs + 172800],
   [UID |-> "u3", hospitalName |-> T_H1, currentLocationOfTheBaby |-> "NICU",
    lastDischargeDate |-> BirthMs + 93600, dischargeDate |-> BirthMs + 93600],
   [UID |-> "", hospitalName |-> T_H1, currentLocationOfTheBaby |-> "NICU",
    dateOfBirth |-> BirthMs, lastDischargeDate |-> BirthMs + 93600,
    dischargeDate |-> BirthMs + 93600],
   [UID |-> "u2", hospitalName |-> T_H2, currentLocationOfTheBaby |-> "NICU",
    dateOfBirth |-> BirthMs]}

\* calculate_hospital_stay_duration over loaded baby batches, and over a
\* batch that starts with a record of another source
InitStay ==
  /\ baby_data \in
       {<<>>,
        <<[UID |-> "u1", hospitalName |-> T_H1, source |-> "follow_up",
           currentLocationOfTheBaby |-> "NICU", dateOfBirth |-> BirthMs,
           lastDischargeDate |-> BirthMs + 93600,
           dischargeDate |-> BirthMs + 93600]>>}
  /\ discharge_data = <<>>
  /\ reports = NoReports
  /\ call = NoCall
  /\ returned = <<>>
  /\ today = Today0

NextStay ==
  \/ LoadBabyDoc(StayDocs)
  \/ LoadBackUpDoc(StayDocs)
  \/ CalcStayDuration

SpecStay == InitStay /\ [][NextStay]_vars

\* documents for the averages by location, of babies born on BirthDay: entries
\* on days 1 and 3 in 'A-B'/'C'; an entry on day 2 in 'A'/'B-C'; entries on
\* days 0 and 4 only; an entry of no minutes and one of 90 on days 1 and 2;
\* no birth date; no location, with an entry without ageDay;
\* an entry of no minutes only
AverageDocs ==
  {[UID |-> "u1", hospitalName |-> T_A_B, currentLocationOfTheBaby |-> T_C,
    dateOfBirth |-> BirthMs,
    observationDay |-> <<[ageDay |-> 1, totalKMCtimeDay |-> 60],
                         [ageDay |-> 3, totalKMCtimeDay |-> 120]>>],
   [UID |-> "u2", hospitalName |-> T_A, currentLocationOfTheBaby |-> T_B_C,
    dateOfBirth |-> BirthMs,
    observationDay |-> <<[ageDay |-> 2, totalKMCtimeDay |-> 30]>>],
   [UID |-> "u3", hospitalName |-> T_A_B, currentLocationOfTheBaby |-> T_C,
    dateOfBirth |-> BirthMs,
    observationDay |-> <<[ageDay |-> 0, totalKMCtimeDay |-> 45],
                         [ageDay |-> 4, totalKMCtimeDay |-> 15]>>],
   [UID |-> "u1", hospitalName |-> T_A, currentLocationOfTheBaby |-> T_C,
    dateOfBirth |-> BirthMs,
    observationDay |-> <<[ageDay |-> 1, totalKMCtimeDay |-> 0],
                         [ageDay |-> 2, totalKMCtimeDay |-> 90]>>],
   [UID |-> "u2", hospitalName |-> T_A, currentLocationOfTheBaby |-> T_C,
    observationDay |-> <<[ageDay |-> 2, totalKMCtimeDay |-> 30]>>],
   [UID |-> "u3", hospitalName |-> T_H1, dateOfBirth |-> BirthMs,
    observationDay |-> <<[totalKMCtimeDay |-> 60],
                         [ageDay |-> 2, totalKMCtimeDay |-> 45]>>],
   [UID |-> "u2", hospitalName |-> T_A, currentLocationOfTheBaby |-> T_C,
    dateOfBirth |-> BirthMs,
    observationDay |-> <<[ageDay |-> 2, totalKMCtimeDay |-> 0]>>]}

\* the windows of the date picker: days 1 to 3 after BirthDay, and day 2 alone
Windows == {<<BirthDay + 1, BirthDay + 3>>, <<BirthDay + 2, BirthDay + 2>>}

\* calculate_average_kmc_by_location over loaded baby batches and a window
InitAverage ==
  /\ NothingLoaded
  /\ \E window \in Windows :
       call = [fn |-> "calculate_average_kmc_by_location", args |-> window]
  /\ returned = <<>>
  /\ today = Today0

NextAverage ==
  \/ LoadBabyDoc(AverageDocs)
  \/ LoadBackUpDoc(AverageDocs)
  \/ CalcAverageKmc

SpecAverage == InitAverage /\ [][NextAverage]_vars

\* documents for the daily analysis, of babies born on BirthDay: sessions on
\* days 1 and 2 and a discharge on day 2; two sessions of 3 minutes on day 2;
\* no minutes on day 3 and a session without ageDay; a discharge on day 2 and
\* no observation entry; no location; no birth date; a session on day 3 in
\* another cell
DailyDocs ==
  {[UID |-> "u1", hospitalName |-> T_H1, currentLocationOfTheBaby |-> T_C,
    dateOfBirth |-> BirthMs, lastDischargeDate |-> BirthMs + 172800,
    observationDay |-> <<[ageDay |-> 1, totalKMCtimeDay |-> 60],
                         [ageDay |-> 2, totalKMCtimeDay |-> 30]>>],
   [UID |-> "u2", hospitalName |-> T_H1, currentLocationOfTheBaby |-> T_C,
    dateOfBirth |-> BirthMs,
    observationDay |-> <<[ageDay |-> 2, totalKMCtimeDay |-> 3],
                         [ageDay |-> 2, totalKMCtimeDay |-> 3]>>],
   [UID |-> "u3", hospitalName |-> T_H2, currentLocationOfTheBaby |-> T_B_C,
    dateOfBirth |-> BirthMs,
    observationDay |-> <<[ageDay |-> 3, totalKMCtimeDay |-> 0],
                         [totalKMCtimeDay |-> 45]>>],
   [UID |-> "u1", hospitalName |-> T_H2, currentLocationOfTheBaby |-> T_C,
    dateOfBirth |-> BirthMs, lastDischargeDate |-> BirthMs + 172800],
   [UID |-> "u2", hospitalName |-> T_H1, dateOfBirth |-> BirthMs,
    lastDischargeDate |-> BirthMs + 172800,
    observationDay |-> <<[ageDay |-> 2, totalKMCtimeDay |-> 60]>>],
   [UID |-> "u3", hospitalName |-> T_H1, currentLocationOfTheBaby |-> T_C,
    observationDay |-> <<[ageDay |-> 2, totalKMCtimeDay |-> 60]>>],
   [UID |-> "u3", hospitalName |-> T_H2, currentLocationOfTheBaby |-> T_C,
    dateOfBirth |-> BirthMs,
    observationDay |-> <<[ageDay |-> 3, totalKMCtimeDay |-> 120]>>]}

\* the dates the daily analysis is computed on: 4 and 5 days after BirthDay
DailyDates == {BirthDay + 4, BirthDay + 5}

\* calculate_daily_kmc_analysis over loaded baby batches, on either date
InitDaily ==
  /\ NothingLoaded
  /\ call = NoCall
  /\ returned = <<>>
  /\ today \in DailyDates

NextDaily ==
  \/ LoadBabyDoc(DailyDocs)
  \/ LoadBackUpDoc(DailyDocs)
  \/ CalcDailyKmcAnalysis

SpecDaily == InitDaily /\ [][NextDaily]_vars

\* documents for the death rates: a live inborn baby; a dead outborn baby;
\* a second dead record of its UID; a dead record with an empty UID; a live
\* record with no UID; a dead record of the UID of the live baby
DeathDocs ==
  {[UID |-> "u1", hospitalName |-> T_H1, placeOfDelivery |-> P_this_hospital,
    currentLocationOfTheBaby |-> "NICU", dateOfBirth |-> BirthMs],
   [UID |-> "u2", hospitalName |-> T_H2, placeOfDelivery |-> T_other_hospital,
    currentLocationOfTheBaby |-> "PNC", deadBaby |-> TRUE,
    dischargedStatusString |-> P_death],
   [UID |-> "u2", hospitalName |-> T_H1, currentLocationOfTheBaby |-> "NICU",
    deadBaby |-> TRUE],
   [UID |-> "", hospitalName |-> T_H1, deadBaby |-> TRUE],
   [hospitalName |-> T_H2, currentLocationOfTheBaby |-> "NICU"],
   [UID |-> "u1", hospitalName |-> T_H2, deadBaby |-> TRUE]}

\* the discharge record of the dead baby
DeathDischargeDocs ==
  {[UID |-> "u2", dischargeStatus |-> P_critical, dischargeType |-> P_home]}

\* calculate_death_rates over loaded batches
NextDeaths ==
  \/ LoadBabyDoc(DeathDocs)
  \/ LoadBackUpDoc(DeathDocs)
  \/ LoadDischargeDoc(DeathDischargeDocs)
  \/ CalcDeathRates

SpecDeaths == InitOutcomes /\ [][NextDeaths]_vars

\* documents whose numeric fields hold values of any type: minutes 'abc' on
\* day 1 and 60 on day 2, skin contacts 'many' and '4'; numbers only, with a
\* skin contact of 12 and one in follow-up 28; minutes None and no birth
\* date; no UID; a skin contact None, one missing and ' 12 '
MalformedDocs ==
  {[UID |-> "u1", hospitalName |-> T_H1, dateOfBirth |-> BirthMs,
    observationDay |-> <<[ageDay |-> 1, totalKMCtimeDay |-> Str(T_abc)],
                         [ageDay |-> 2, totalKMCtimeDay |-> Number(60)]>>,
    followUp |-> <<[followUpNumber |-> 2, numberSkinContact |-> Str(T_many)],
                   [followUpNumber |-> 7, numberSkinContact |-> Str(T_4)]>>],
   [UID |-> "u2", hospitalName |-> T_H2, dateOfBirth |-> BirthMs,
    observationDay |-> <<[ageDay |-> 1, totalKMCtimeDay |-> Number(60)]>>,
    followUp |-> <<[followUpNumber |-> 2, numberSkinContact |-> Number(12)],
                   [followUpNumber |-> 28, numberSkinContact |-> Number(3)]>>],
   [UID |-> "u3", hospitalName |-> T_H1,
    observationDay |-> <<[ageDay |-> 1, totalKMCtimeDay |-> NoneValue]>>],
   [UID |-> "", hospitalName |-> T_H1, dateOfBirth |-> BirthMs,
    observationDay |-> <<[totalKMCtimeDay |-> Str(T_abc)]>>,
    followUp |-> <<[followUpNumber |-> 2, numberSkinContact |-> Number(5)]>>],
   [UID |-> "u2", hospitalName |-> T_H1, dateOfBirth |-> BirthMs,
    followUp |-> <<[followUpNumber |-> 2, numberSkinContact |-> NoneValue],
                   [followUpNumber |-> 14],
                   [followUpNumber |-> 7, numberSkinContact |-> Str(T_sp_12_sp)]>>]}

\* the calculators that read the numeric fields, over loaded baby batches
NextMalformed ==
  \/ LoadBabyDoc(MalformedDocs)
  \/ LoadBackUpDoc(MalformedDocs)
  \/ CheckStabilityOfLoaded
  \/ CalcCheckedInitiation
  \/ CalcSkinContact

SpecMalformed == InitOutcomes /\ [][NextMalformed]_vars

\* documents for the calculators that read the clock, of babies born on
\* BirthDay: a baby discharged the day after with no follow-up; one with
\* follow-up 2; one with no discharge
ClockDocs ==
  {[UID |-> "u1", hospitalName |-> T_H1, dateOfBirth |-> BirthMs,
    lastDischargeType |-> T_Home, dischargeDate |-> BirthMs + 86400,
    followUp |-> <<>>],
   [UID |-> "u2", hospitalName |-> T_H2, dateOfBirth |-> BirthMs,
    lastDischargeType |-> T_Home, dischargeDate |-> BirthMs + 86400,
    followUp |-> <<[followUpNumber |-> 2]>>],
   [UID |-> "u3", hospitalName |-> T_H1, dateOfBirth |-> BirthMs]}

\* the dates of the invocations: the day before follow-up 2 is overdue, the
\* day after, and the day follow-up 28 is overdue
ClockDates == {BirthDay + 4, BirthDay + 6, BirthDay + 30}

InitClock ==
  /\ NothingLoaded
  /\ call = NoCall
  /\ returned = <<>>
  /\ today \in ClockDates

\* the calculators that read the clock, invoked on one date and looked at on
\* a later one
NextClock ==
  \/ LoadBabyDoc(ClockDocs)
  \/ LoadBackUpDoc(ClockDocs)
  \/ CalcFollowupMetrics
  \/ CalcDailyKmcAnalysis
  \/ DateChanges(ClockDates)

SpecClock == InitClock /\ [][NextClock]_vars

\* documents of the baby and babyBackUp collections: a named hospital;
\* names that hold 'test', 'demo' in capitals and 'test' inside a word; no
\* hospitalName; an empty one
CollectionDocs ==
  {[id |-> "d1", data |-> [UID |-> "u1", hospitalName |-> T_H1]],
   [id |-> "d3", data |-> [UID |-> "u3", hospitalName |-> T_Test_Hospital]],
   [id |-> "d4", data |-> [UID |-> "u1", hospitalName |-> T_DEMO_Ward]],
   [id |-> "d5", data |-> [UID |-> "u2", hospitalName |-> T_Contest_Clinic]],
   [id |-> "d6", data |-> [UID |-> "u3"]],
   [id |-> "d7", data |-> [UID |-> "u1", hospitalName |-> <<>>]]}

\* documents of the discharges and follow_up collections, one of a test
\* hospital and one with no hospitalName
OtherCollectionDocs ==
  {[id |-> "d8", data |-> [UID |-> "u1", hospitalName |-> T_Test_Hospital]],
   [id |-> "d9", data |-> [UID |-> "u2"]]}

\* the calls load_firebase_data(), by what the four collections hold
LoadCalls ==
  {[fn |-> "load_firebase_data", args |-> <<b, k, d, f>>] :
     b \in SeqsUpTo(CollectionDocs, MaxBabies),
     k \in SeqsUpTo(CollectionDocs, 1),
     d \in SeqsUpTo(OtherCollectionDocs, MaxDischarges),
     f \in SeqsUpTo(OtherCollectionDocs, 1)}

InitLoad ==
  /\ NothingLoaded
  /\ call \in LoadCalls
  /\ returned = <<>>
  /\ today = Today0

NextLoad == LoadFirebaseData

SpecLoad == InitLoad /\ [][NextLoad]_vars

\* a collection of n documents
CollectionOf(n) == [i \in 1..n |-> i]

\* the calls load_collection_with_retry(db, name, max_retries, batch_size):
\* collections of no document, of 25 and of 120, max_retries from 1 and
\* batch sizes 2 and 100
RetryCalls ==
  {[fn |-> "load_collection_with_retry",
    args |-> <<CollectionOf(n), max_retries, batch_size>>,
    attempt |-> 0, fetches |-> <<>>, sleeps |-> <<>>] :
     n \in {0, 25, 120}, max_retries \in 1..MaxRetries, batch_size \in {2, 100}}

InitRetry ==
  /\ NothingLoaded
  /\ call \in RetryCalls
  /\ returned = <<>>
  /\ today = Today0

NextRetry ==
  \/ AttemptReturns
  \/ AttemptRaises

\* every fetch returns or raises in the end, and the loop goes on
SpecRetry == InitRetry /\ [][NextRetry]_vars /\ WF_vars(NextRetry)

\* the reports with a percentage over loaded baby batches
NextPercentages ==
  \/ LoadBabyDoc(PercentDocs)
  \/ LoadBackUpDoc(PercentDocs)
  \/ CalcRegistrationTimeliness
  \/ CalcKmcInitiation
  \/ CalcFollowupMetrics
  \/ CalcDischargeOutcomes
  \/ CalcDeathRates

SpecPercentages == InitOutcomes /\ [][NextPercentages]_vars

\* the calls categorize_discharge_from_collection(record, source)
CategorizeCalls ==
  {[fn |-> "categorize_discharge_from_collection", args |-> <<rec, src>>] :
     rec \in DischargeRecords, src \in {"discharges"}}
    \cup
  {[fn |-> "categorize_discharge_from_collection", args |-> <<rec, src>>] :
     rec \in BackUpRecords, src \in {"babyBackUp"}}
    \cup
  {[fn |-> "categorize_discharge_from_collection", args |-> <<rec, src>>] :
     rec \in {[UID |-> "u1"], [dischargeType |-> P_died],
              [dischargedStatusString |-> P_death]},
     src \in {"baby", "follow_up", ""}}

\* the calls check_kmc_stability(baby)
StabilityCalls ==
  {[fn |-> "check_kmc_stability", args |-> <<baby>>] : baby \in StabilityBabies}

\* numeric timestamps, in thousands: None or 0; small values; 1_700_000_000
\* and 1_700_000_000_000 and their neighbours; the end of the year 9999; the
\* threshold 1_000_000_000_000 and its neighbours
Timestamps ==
  {0, 1, 86, 432, 433, 86400}
    \cup {BirthS + d : d \in 0 - 2..2}
    \cup {BirthMs + d : d \in 0 - 2..2}
    \cup {MaxTimestamp - 300, MaxTimestamp + 700}
    \cup {1000000000 + d : d \in 0 - 2..2}

\* the calls convert_unix_to_datetime(timestamp)
ConvertCalls ==
  {[fn |-> "convert_unix_to_datetime", args |-> <<timestamp>>] :
     timestamp \in Timestamps}

\* the classifiers, each applied to one input
InitClassify ==
  /\ discharge_data = <<>>
  /\ reports = NoReports
  /\ returned = <<>>
  /\ today = Today0
  /\ \/ call \in CategorizeCalls /\ baby_data = <<>>
     \/ call \in StabilityCalls /\ baby_data = <<>>
     \/ call \in ConvertCalls /\ baby_data = <<>>
     \/ call = NoCall /\ baby_data \in VerificationBatches

NextClassify ==
  \/ Categorize
  \/ CheckKmcStability
  \/ ConvertUnixToDatetime
  \/ CalcKmcVerification

SpecClassify == InitClassify /\ [][NextClassify]_vars

(***************************************************************************)
(* Properties of calculate_discharge_outcomes                              *)
(***************************************************************************)

discharge_outcomes == reports["discharge_outcomes"]

\* the records calculate_discharge_outcomes goes through, in its order: the
\* discharges collection, then the babyBackUp records of the baby batch
OutcomeRecords ==
  discharge_data
    \o SelectSeq(baby_data, LAMBDA baby : Get(baby, "source", "") = "babyBackUp")

OutcomeProvenance(i) ==
  IF i <= Len(discharge_data) THEN "discharges" ELSE "babyBackUp"

OutcomeUID(i) == Get(OutcomeRecords[i], "UID", "")

OutcomeUIDs == {OutcomeUID(i) : i \in 1..Len(OutcomeRecords)} \ {""}

\* the position of the first record that carries uid
FirstOutcomeRecord(uid) ==
  CHOOSE i \in 1..Len(OutcomeRecords) :
    /\ OutcomeUID(i) = uid
    /\ \A j \in 1..(i - 1) : OutcomeUID(j) # uid

\* the itemized entries of a report, as <<category, position>>
OutcomeEntries(r) ==
  {<<c, i>> \in Categories \X (1..(MaxBabies + MaxDischarges)) :
     i <= Len(r.categories[c].babies)}

\* C1: every non-empty UID of the discharge batch and of the babyBackUp
\* records is counted once, in one category, which the first record that
\* carries it (discharges before babyBackUp) decides; later records with the
\* same UID add nothing, and total_discharged = unique_babies_processed.
C1_EachUidCountedOnceByFirstRecord ==
  discharge_outcomes # <<>> =>
    LET r == discharge_outcomes[1]
        entries == OutcomeEntries(r)
    IN  /\ \A uid \in OutcomeUIDs :
             LET mine == {e \in entries : r.categories[e[1]].babies[e[2]].UID = uid}
                 first == FirstOutcomeRecord(uid)
             IN  /\ Cardinality(mine) = 1
                 /\ \A e \in mine :
                      /\ r.categories[e[1]].babies[e[2]].baby_data = OutcomeRecords[first]
                      /\ e[1] = categorize_discharge_from_collection(
                                  OutcomeRecords[first], OutcomeProvenance(first))
        /\ \A e \in entries : r.categories[e[1]].babies[e[2]].UID \in OutcomeUIDs
        /\ \A c \in Categories : r.categories[c].count = Len(r.categories[c].babies)
        /\ r.total_discharged = r.unique_babies_processed
        /\ r.total_discharged = Cardinality(OutcomeUIDs)

\* C1 witness: a report over a UID that a discharges record and a babyBackUp
\* record share, and a UID that two discharges records of different
\* categories share
C1_Witness ==
  /\ discharge_outcomes # <<>>
  /\ \E i \in 1..Len(OutcomeRecords), j \in 1..Len(OutcomeRecords) :
       /\ i <= Len(discharge_data) /\ j > Len(discharge_data)
       /\ OutcomeUID(i) # "" /\ OutcomeUID(i) = OutcomeUID(j)
  /\ \E i \in 1..Len(discharge_data), j \in 1..Len(discharge_data) :
       /\ i < j
       /\ OutcomeUID(i) # "" /\ OutcomeUID(i) = OutcomeUID(j)
       /\ DischargesRules(discharge_data[i]) # DischargesRules(discharge_data[j])

\* C9 as claimed: a babyBackUp record is categorized by the
\* dischargeStatusString the itemized entry carries, so that a counted backup
\* record whose dischargeStatusString is 'Critical and discharged' is under
\* critical_home.
C9_BackUpCategoryFromDischargeStatusString ==
  discharge_outcomes # <<>> =>
    LET r == discharge_outcomes[1]
    IN  \A e \in OutcomeEntries(r) :
          LET entry == r.categories[e[1]].babies[e[2]]
          IN  /\ ~entry.discharge_record
              /\ entry.dischargeStatusString = T_Critical_and_discharged
              => e[1] = "critical_home"

(***************************************************************************)
(* Properties of categorize_discharge_from_collection                      *)
(***************************************************************************)

Categorized ==
  /\ call.fn = "categorize_discharge_from_collection"
  /\ returned # <<>>

record == call.args[1]

source == call.args[2]

category == returned[1]

\* the label the primary-discharge rules give to a status and a type
PrimaryLabel(status, type) ==
  CASE status = P_critical /\ type = P_home -> "critical_home"
    [] status = P_stable /\ type = P_home -> "stable_home"
    [] status = P_critical /\ type = P_referred -> "critical_referred"
    [] type = P_died -> "died"
    [] OTHER -> "other"

\* C6 as claimed: for provenance 'discharges' the label is that of the
\* lower-cased, trimmed dischargeStatus and dischargeType.
C6_DischargesTrimmedCaseInsensitive ==
  Categorized /\ source = "discharges" =>
    category = PrimaryLabel(Lower(Strip(Get(record, "dischargeStatus", <<>>))),
                            Lower(Strip(Get(record, "dischargeType", <<>>))))

\* the text the babyBackUp rules read
BackUpText == Get(record, BackUpStatusKey, <<>>)

Has(phrase) == Contains(Lower(BackUpText), phrase)

HasDeathPhrase ==
  \/ Has(P_died_before_discharge)
  \/ Has(P_death)
  \/ Contains(BackUpText, P_hindi_died_before_discharge)
  \/ Contains(BackUpText, P_hindi_death)

\* C7: for provenance 'babyBackUp' the substring rules apply in a fixed order
\* and the first match wins; a text with 'stable' and 'critical' but without
\* 'critical and discharged' is stable_home, and a text with 'critical' and a
\* death phrase is never died.
C7_BackUpFirstMatchWins ==
  Categorized /\ source = "babyBackUp" =>
    LET r1 == Has(P_critical_and_discharged)
        r2 == Has(P_discharged_according_to_criteria) \/ Has(P_stable)
        r3 == Has(P_referred_out) \/ Has(P_critical)
        r4 == HasDeathPhrase
    IN  /\ r1 => category = "critical_home"
        /\ ~r1 /\ r2 => category = "stable_home"
        /\ ~r1 /\ ~r2 /\ r3 => category = "critical_referred"
        /\ ~r1 /\ ~r2 /\ ~r3 /\ r4 => category = "died"
        /\ ~r1 /\ ~r2 /\ ~r3 /\ ~r4 => category = "other"
        /\ Has(P_stable) /\ Has(P_critical) /\ ~r1 => category = "stable_home"
        /\ Has(P_critical) /\ r4 => category # "died"

\* C7 witness: a categorized backup text with 'stable', 'critical' and a
\* death phrase but without 'critical and discharged'
C7_Witness ==
  /\ Categorized /\ source = "babyBackUp"
  /\ Has(P_stable) /\ Has(P_critical) /\ HasDeathPhrase
  /\ ~Has(P_critical_and_discharged)
  /\ category = "stable_home"

\* the text with the code points of emoji_pattern deleted
WithoutEmoji(text) == SelectSeq(text, LAMBDA c : ~InEmojiPattern(c))

\* C8 as claimed: a backup text gets the label of the same text with its
\* pictographic characters deleted.
C8_BackUpLabelIgnoresEmoji ==
  Categorized /\ source = "babyBackUp" =>
    category = categorize_discharge_from_collection(
                 [dischargedStatusString |-> WithoutEmoji(BackUpText)], "babyBackUp")

(***************************************************************************)
(* Properties of the classifiers                                           *)
(***************************************************************************)

kmc_verification == reports["kmc_verification"]

\* the number of itemized entries with the given status
EntriesWithStatus(detailed_data, status) ==
  Cardinality({i \in 1..Len(detailed_data) : detailed_data[i].status = status})

\* C5: categorize_discharge_from_collection returns one of its five labels,
\* other for a tag that is neither 'discharges' nor 'babyBackUp' and for a
\* backup text no rule matches; calculate_kmc_verification_monitoring gives
\* every observation entry one of its four statuses, so that the four
\* counters sum to total_observations; check_kmc_stability returns stable or
\* unstable.
C5_ClassifiersTotal ==
  /\ Categorized =>
       /\ category \in Categories
       /\ source \notin {"discharges", "babyBackUp"} => category = "other"
       /\ /\ source = "babyBackUp"
          /\ ~Has(P_critical_and_discharged) /\ ~Has(P_stable) /\ ~Has(P_critical)
          /\ ~Has(P_discharged_according_to_criteria) /\ ~Has(P_referred_out)
          /\ ~HasDeathPhrase
          => category = "other"
  /\ kmc_verification # <<>> =>
       LET r == kmc_verification[1]
           stats == r.verification_stats
       IN  /\ \A i \in 1..Len(r.detailed_data) : r.detailed_data[i].status \in Statuses
           /\ \A s \in Statuses : stats[s] = EntriesWithStatus(r.detailed_data, s)
           /\ stats.total_observations = Len(r.detailed_data)
           /\ stats.correct + stats.incorrect + stats.unable_to_verify
                + stats.not_verified = stats.total_observations
  /\ call.fn = "check_kmc_stability" /\ returned # <<>> =>
       returned[1] \in {"stable", "unstable"}

\* C5 witness: a verification report over several entries, one of them
\* matching no rule
C5_Witness ==
  /\ kmc_verification # <<>>
  /\ kmc_verification[1].verification_stats.total_observations >= 3
  /\ kmc_verification[1].verification_stats.not_verified >= 1
  /\ kmc_verification[1].verification_stats.incorrect >= 1

\* C10: the status of an observation entry is decided in priority order: a
\* comment that is not blank gives incorrect; else a boolean filledCorrectly
\* decides; else a boolean kmcfilledcorrectly decides; else a non-empty
\* string kmcfilledcorrectly gives correct for 'correct'/'true', incorrect
\* for 'incorrect'/'false', unable_to_verify when it contains 'unable', all
\* compared in lower case; else not_verified.
C10_VerificationPriority ==
  kmc_verification # <<>> =>
    \A i \in 1..Len(kmc_verification[1].detailed_data) :
      LET e == kmc_verification[1].detailed_data[i]
          commented == Strip(e.mnecomment) # <<>>
          primary == e.filledCorrectly.type = "bool"
          secondary == e.kmcfilledcorrectly.type = "bool"
          text == IF e.kmcfilledcorrectly.type = "str"
                    THEN Lower(e.kmcfilledcorrectly.val) ELSE <<>>
      IN  /\ commented => e.status = "incorrect"
          /\ ~commented /\ primary =>
               e.status = IF e.filledCorrectly.val THEN "correct" ELSE "incorrect"
          /\ ~commented /\ ~primary /\ secondary =>
               e.status = IF e.kmcfilledcorrectly.val THEN "correct" ELSE "incorrect"
          /\ ~commented /\ ~primary /\ ~secondary =>
               /\ text \in {P_correct, P_true} => e.status = "correct"
               /\ text \in {P_incorrect, P_false} => e.status = "incorrect"
               /\ text \notin {P_correct, P_true, P_incorrect, P_false}
                    /\ Contains(text, P_unable) => e.status = "unable_to_verify"
               /\ text \notin {P_correct, P_true, P_incorrect, P_false}
                    /\ ~Contains(text, P_unable) => e.status = "not_verified"

\* C10 witness: an entry with a comment and filledCorrectly true, reported
\* incorrect
C10_Witness ==
  /\ kmc_verification # <<>>
  /\ \E i \in 1..Len(kmc_verification[1].detailed_data) :
       LET e == kmc_verification[1].detailed_data[i]
       IN  /\ Strip(e.mnecomment) # <<>>
           /\ IsTrue(e.filledCorrectly)
           /\ e.status = "incorrect"

(***************************************************************************)
(* Properties of the timing calculators                                    *)
(***************************************************************************)

reg_metrics == reports["reg_metrics"]

kmc_initiation == reports["kmc_initiation"]

\* the records of the baby batch whose delivery place is canonical inborn
InbornRecords ==
  {i \in 1..Len(baby_data) : IsInbornPlace(Get(baby_data[i], "placeOfDelivery", <<>>))}

UidOf(i) == Get(baby_data[i], "UID", "")

\* C2 as claimed: a UID contributes at most once to total_inborn of
\* calculate_registration_timeliness and to total_babies_with_kmc of
\* calculate_kmc_initiation_metrics, also when two records of the batch
\* share it.
C2_UidCountedAtMostOnce ==
  /\ reg_metrics # <<>> =>
       reg_metrics[1].total_inborn
         <= Cardinality({UidOf(i) : i \in InbornRecords} \ {""})
              + Cardinality({i \in InbornRecords : UidOf(i) = ""})
  /\ kmc_initiation # <<>> =>
       LET data == kmc_initiation[1].initiation_data
       IN  /\ \A i, j \in 1..Len(data) : i # j => data[i].UID # data[j].UID
           /\ kmc_initiation[1].total_babies_with_kmc
                <= Cardinality({UidOf(i) : i \in 1..Len(baby_data)} \ {""})

\* the bucket counts of one segment of the initiation report are nested
NestedStats(stats) ==
  /\ stats.within_24h_count <= stats.within_48h_count
  /\ stats.within_48h_count <= stats.count

\* C3: within_12h_count <= within_24h_count <= total_inborn in the
\* registration report; within_24h_count <= within_48h_count <=
\* total_babies_with_kmc in the initiation report, and the same nesting in
\* inborn_stats, outborn_stats and every entry of inborn_location_stats.
C3_BucketsNested ==
  /\ reg_metrics # <<>> =>
       /\ reg_metrics[1].within_12h_count <= reg_metrics[1].within_24h_count
       /\ reg_metrics[1].within_24h_count <= reg_metrics[1].total_inborn
  /\ kmc_initiation # <<>> =>
       LET r == kmc_initiation[1]
       IN  /\ r.within_24h_count <= r.within_48h_count
           /\ r.within_48h_count <= r.total_babies_with_kmc
           /\ r.inborn_stats # EmptyDict => NestedStats(r.inborn_stats)
           /\ r.outborn_stats # EmptyDict => NestedStats(r.outborn_stats)
           /\ \A location \in DOMAIN r.inborn_location_stats :
                NestedStats(r.inborn_location_stats[location])

\* C3 witness: both reports with strictly nested counts, the inborn segment
\* and a location among them
C3_Witness ==
  /\ reg_metrics # <<>> /\ kmc_initiation # <<>>
  /\ reg_metrics[1].within_12h_count < reg_metrics[1].within_24h_count
  /\ reg_metrics[1].within_24h_count < reg_metrics[1].total_inborn
  /\ kmc_initiation[1].within_24h_count < kmc_initiation[1].within_48h_count
  /\ kmc_initiation[1].within_48h_count < kmc_initiation[1].total_babies_with_kmc
  /\ kmc_initiation[1].inborn_stats # EmptyDict
  /\ kmc_initiation[1].inborn_stats.within_24h_count
       < kmc_initiation[1].inborn_stats.within_48h_count
  /\ "NICU" \in DOMAIN kmc_initiation[1].inborn_location_stats

followup_metrics == reports["followup_metrics"]

death_metrics == reports["death_metrics"]

\* the field is in the report and is the literal 0 when the denominator is 0
ZeroWhenEmpty(report, field, denominator) ==
  /\ field \in DOMAIN report
  /\ report[field].den # 0
  /\ denominator = 0 => report[field] = Zero

\* the two percentages of a block of initiation statistics
InitiationPercentages(stats, denominator) ==
  /\ ZeroWhenEmpty(stats, "within_24h_percentage", denominator)
  /\ ZeroWhenEmpty(stats, "within_48h_percentage", denominator)

RegistrationPercentagesDefined ==
  reg_metrics # <<>> =>
    /\ ZeroWhenEmpty(reg_metrics[1], "within_24h_percentage", reg_metrics[1].total_inborn)
    /\ ZeroWhenEmpty(reg_metrics[1], "within_12h_percentage", reg_metrics[1].total_inborn)

OutcomePercentagesDefined ==
  discharge_outcomes # <<>> =>
    \A field \in {"critical_home_percentage", "stable_home_percentage",
                  "critical_referred_percentage", "died_percentage"} :
      ZeroWhenEmpty(discharge_outcomes[1], field, discharge_outcomes[1].total_discharged)

MortalityPercentagesDefined ==
  death_metrics # <<>> =>
    LET hospital_data == death_metrics[1].hospital_data
    IN  /\ ZeroWhenEmpty(death_metrics[1], "mortality_rate", death_metrics[1].total_babies)
        /\ Len(hospital_data.rates) = Len(hospital_data.hospitals)
        /\ \A i \in 1..Len(hospital_data.rates) :
             /\ hospital_data.rates[i].den # 0
             /\ hospital_data.totals[i] = 0 => hospital_data.rates[i] = Zero

FollowupPercentagesDefined ==
  followup_metrics # <<>> =>
    /\ ZeroWhenEmpty(followup_metrics[1], "overall_completion_rate",
                     followup_metrics[1].total_eligible)
    /\ \A i \in 1..Len(followup_metrics[1].hospital_summary) :
         followup_metrics[1].hospital_summary[i].completion_rate.den # 0

Segments == {"inborn_stats", "outborn_stats"}

\* C4 as stated, for the segments: the inborn and the outborn statistics hold
\* the two percentage fields, which are 0 when the segment has no babies
C4_SegmentPercentagesPresent ==
  kmc_initiation # <<>> =>
    \A segment \in Segments :
      LET segment_data ==
            SelectSeq(kmc_initiation[1].initiation_data,
                      LAMBDA d : d.is_inborn = (segment = "inborn_stats"))
      IN  InitiationPercentages(kmc_initiation[1][segment], Len(segment_data))

\* C4, amended: every report is produced for every batch, the empty one
\* included; within_24h_percentage and within_12h_percentage of registration
\* timeliness, the overall within_24h_percentage and within_48h_percentage of
\* KMC initiation, the four category percentages of discharge outcomes,
\* mortality_rate and the per-hospital rates, and overall_completion_rate are
\* present, never divide by 0 and are 0 when their denominator is 0; the
\* inborn and outborn statistics of KMC initiation hold the two percentages
\* when the segment has babies and are an empty mapping, without any
\* percentage field, when it has none
C4_PercentagesZeroOnEmptyDenominator ==
  /\ RegistrationPercentagesDefined
  /\ OutcomePercentagesDefined
  /\ MortalityPercentagesDefined
  /\ FollowupPercentagesDefined
  /\ kmc_initiation # <<>> =>
       /\ InitiationPercentages(kmc_initiation[1],
                                kmc_initiation[1].total_babies_with_kmc)
       /\ \A segment \in Segments :
            LET segment_data ==
                  SelectSeq(kmc_initiation[1].initiation_data,
                            LAMBDA d : d.is_inborn = (segment = "inborn_stats"))
                stats == kmc_initiation[1][segment]
            IN  IF segment_data = <<>>
                  THEN stats = EmptyDict
                  ELSE /\ stats.count = Len(segment_data)
                       /\ InitiationPercentages(stats, stats.count)

\* every report computed over a batch with no inborn baby, no baby with KMC,
\* nothing discharged, no counted baby but a dead one, and nothing eligible
C4_Witness ==
  /\ \A name \in {"reg_metrics", "kmc_initiation", "discharge_outcomes",
                   "death_metrics", "followup_metrics"} : reports[name] # <<>>
  /\ baby_data # <<>>
  /\ reg_metrics[1].total_inborn = 0
  /\ kmc_initiation[1].total_babies_with_kmc = 0
  /\ discharge_outcomes[1].total_discharged = 0
  /\ death_metrics[1].total_babies = 0
  /\ death_metrics[1].dead_babies > 0
  /\ followup_metrics[1].total_eligible = 0

\* the baby check_kmc_stability was called on
StabilityChecked == call.fn = "check_kmc_stability" /\ returned # <<>>

CheckedEntries == Get(call.args[1], "observationDay", <<>>)

\* some observation entry has unstableForKMC true or the danger-sign phrase
InstabilityIndicated ==
  \E i \in 1..Len(CheckedEntries) :
    \/ Get(CheckedEntries[i], "unstableForKMC", FALSE)
    \/ Contains(Get(CheckedEntries[i], "dangerSign", <<>>), P_unstable_for_kmc)

\* the sum of the positive totalKMCtimeDay of the entries
PositiveMinutes ==
  Sum([i \in 1..Len(CheckedEntries) |->
         IF Get(CheckedEntries[i], "totalKMCtimeDay", 0) > 0
           THEN CheckedEntries[i].totalKMCtimeDay ELSE 0])

Converted == call.fn = "convert_unix_to_datetime" /\ returned # <<>>

timestamp == call.args[1]

IsDatetime(value) == value # <<>> /\ DOMAIN value[1] = {"days", "secs"}

\* the datetime is the instant of s seconds
AtSeconds(datetime, s) ==
  /\ 0 <= datetime.secs /\ datetime.secs < 86400
  /\ datetime.days * 86400 + datetime.secs = s

\* the datetime is the instant of 1000 k seconds: both sides over 200
AtThousandSeconds(datetime, k) ==
  /\ 0 <= datetime.secs /\ datetime.secs < 86400
  /\ datetime.secs % 200 = 0
  /\ datetime.days * 432 + datetime.secs \div 200 = 5 * k

critical_reasons_data == reports["critical_reasons_data"]

\* the discharge records that bring their reasons: the UID is set, the field
\* is not blank and no earlier such record has the UID
ReasonRecords ==
  {i \in 1..Len(discharge_data) :
     /\ Get(discharge_data[i], "UID", "") # ""
     /\ Strip(Get(discharge_data[i], "criticalReasons", <<>>)) # <<>>
     /\ \A j \in 1..(i - 1) :
          \/ Get(discharge_data[j], "UID", "") # discharge_data[i].UID
          \/ Strip(Get(discharge_data[j], "criticalReasons", <<>>)) = <<>>}

\* the tokens of the string-encoded lists, as written in the text
ListTokens ==
  (R_GA_weightLoss :> {R_GA, R_weightLoss})
    @@ (R_weightLoss_GA :> {R_GA, R_weightLoss})
    @@ (R_GA_list :> {R_GA})
    @@ (R_padded_list :> {R_GA})
    @@ (R_trailing_comma :> {R_GA})
    @@ (R_double_quoted :> {R_GA})
    @@ (R_GA_sp_GA :> {R_GA, <<32>> \o R_GA})

\* the counter of a reason, 0 when the report has no such reason
ReasonCount(reason) ==
  IF reason \in DOMAIN critical_reasons_data[1].individual_reasons
    THEN critical_reasons_data[1].individual_reasons[reason].count
    ELSE 0

\* every record that brings reasons holds one of the given lists
OnlyLists(texts) ==
  \A i \in ReasonRecords : discharge_data[i].criticalReasons \in texts

\* C13 as stated: a record whose criticalReasons is a string-encoded list of
\* k distinct tokens that are not empty adds 1 to the counter of each token
\* as written and 1 to total_babies_with_reasons
C13_EachDistinctTokenCountedOnce ==
  critical_reasons_data # <<>> /\ OnlyLists(DOMAIN ListTokens) =>
    /\ critical_reasons_data[1].total_babies_with_reasons = Cardinality(ReasonRecords)
    /\ \A reason \in UNION {ListTokens[text] : text \in DOMAIN ListTokens} :
         ReasonCount(reason) =
           Cardinality({i \in ReasonRecords :
                          reason \in ListTokens[discharge_data[i].criticalReasons]})

\* the lists whose tokens are not blank and differ once trimmed
TrimmedLists ==
  {text \in DOMAIN ListTokens :
     /\ \A token \in ListTokens[text] : Strip(token) # <<>>
     /\ \A t1, t2 \in ListTokens[text] : Strip(t1) = Strip(t2) => t1 = t2}

\* C13, amended: a record whose criticalReasons is a string-encoded list of k
\* tokens that are not blank and are distinct once trimmed adds exactly 1 to
\* the counter of each trimmed token and exactly 1 to
\* total_babies_with_reasons, so that the counters may sum to more than
\* total_babies_with_reasons; a record with an empty, blank or missing
\* criticalReasons adds nothing to either.
C13_EachTrimmedTokenCountedOnce ==
  critical_reasons_data # <<>> /\ OnlyLists(TrimmedLists) =>
    /\ critical_reasons_data[1].total_babies_with_reasons = Cardinality(ReasonRecords)
    /\ \A reason \in DOMAIN critical_reasons_data[1].individual_reasons :
         \E i \in ReasonRecords :
           reason \in {Strip(token) : token \in ListTokens[discharge_data[i].criticalReasons]}
    /\ \A reason \in {Strip(token) :
                        token \in UNION {ListTokens[text] : text \in TrimmedLists}} :
         ReasonCount(reason) =
           Cardinality({i \in ReasonRecords :
                          reason \in {Strip(token) :
                                        token \in ListTokens[discharge_data[i].criticalReasons]}})

\* C13 witness: a record with a list of two tokens after a record with no
\* reasons: the counters sum to more than the babies
C13_Witness ==
  /\ critical_reasons_data # <<>>
  /\ OnlyLists(TrimmedLists)
  /\ Cardinality(ReasonRecords) = 1
  /\ Len(discharge_data) > Cardinality(ReasonRecords)
  /\ "criticalReasons" \notin DOMAIN discharge_data[1]
  /\ critical_reasons_data[1].total_babies_with_reasons = 1
  /\ ReasonCount(R_GA) = 1
  /\ ReasonCount(R_weightLoss) = 1

\* the record brings at least one reason to the report
HasReason(i) ==
  \E reason \in DOMAIN critical_reasons_data[1].individual_reasons :
    LET babies == critical_reasons_data[1].individual_reasons[reason].babies
    IN  \E k \in 1..Len(babies) : babies[k].UID = discharge_data[i].UID

\* C14: a bracket-delimited text is parsed as a literal list, else its quoted
\* substrings are extracted, else the whole trimmed text is counted as one
\* reason; so only a record with an empty field is left out of the reason
\* counts, and every record counted in total_babies_with_reasons brings at
\* least one reason.
C14_EveryCountedRecordHasAReason ==
  critical_reasons_data # <<>> =>
    /\ critical_reasons_data[1].total_babies_with_reasons = Cardinality(ReasonRecords)
    /\ \A i \in ReasonRecords :
         /\ HasReason(i)
         /\ discharge_data[i].criticalReasons = R_unquoted => ReasonCount(R_unquoted) >= 1

\* the baby records the follow-up report counts: the UID is set, the baby is
\* not dead and no earlier live record has the UID
FollowupRecords ==
  {i \in 1..Len(baby_data) :
     /\ Get(baby_data[i], "UID", "") # ""
     /\ ~Get(baby_data[i], "deadBaby", FALSE)
     /\ \A j \in 1..(i - 1) :
          \/ Get(baby_data[j], "UID", "") # baby_data[i].UID
          \/ Get(baby_data[j], "deadBaby", FALSE)}

\* the days from the anchor date to the due date, by follow-up type
DueAfter ==
  ("Follow up 2" :> 3) @@ ("Follow up 7" :> 7) @@ ("Follow up 14" :> 14)
    @@ ("Follow up 28" :> 29)

FollowupNumber ==
  ("Follow up 2" :> 2) @@ ("Follow up 7" :> 7) @@ ("Follow up 14" :> 14)
    @@ ("Follow up 28" :> 28)

\* the anchor date of a follow-up type: the birth date for type 28, the
\* discharge date for the others; <<>> when the baby has none
AnchorDate(baby, followup_name) ==
  IF followup_name = "Follow up 28"
    THEN convert_unix_to_datetime(Get(baby, "dateOfBirth", 0))
    ELSE FollowupDischargeDate(baby)

\* the records of a hospital that are eligible for a follow-up type
EligibleRecords(hospital, followup_name) ==
  {i \in FollowupRecords :
     /\ baby_data[i].hospitalName = hospital
     /\ AnchorDate(baby_data[i], followup_name) # <<>>}

HasFollowup(baby, followup_name) ==
  \E k \in 1..Len(Get(baby, "followUp", <<>>)) :
    Get(baby.followUp[k], "followUpNumber", 0) = FollowupNumber[followup_name]

DueDay(baby, followup_name) ==
  AnchorDate(baby, followup_name)[1].days + DueAfter[followup_name]

\* the items of the report for a hospital and a follow-up type
SummaryItems(hospital, followup_name) ==
  {k \in 1..Len(followup_metrics[1].hospital_summary) :
     /\ followup_metrics[1].hospital_summary[k].hospital = hospital
     /\ followup_metrics[1].hospital_summary[k].followup_type = followup_name}

Hospitals == {baby_data[i].hospitalName : i \in 1..Len(baby_data)}

\* C15: among the eligible babies of a hospital and a follow-up type, the
\* completed ones are those with a followUp entry of the matching number,
\* whatever the due date, and the overdue ones are those without such an
\* entry whose due date (discharge date + 3, 7 or 14 days, birth date + 29
\* days for type 28) is yesterday or earlier; one due today or later is
\* counted in neither.
C15_OverdueOnOrBeforeYesterday ==
  followup_metrics # <<>> =>
    \A hospital \in Hospitals, followup_name \in FollowupNames :
      LET eligible == EligibleRecords(hospital, followup_name)
          completed == {i \in eligible : HasFollowup(baby_data[i], followup_name)}
          overdue == {i \in eligible \ completed :
                        DueDay(baby_data[i], followup_name) <= today - 1}
          items == SummaryItems(hospital, followup_name)
      IN  IF eligible = {} THEN items = {}
          ELSE /\ Cardinality(items) = 1
               /\ \A k \in items :
                    LET item == followup_metrics[1].hospital_summary[k]
                    IN  /\ item.eligible = Cardinality(eligible)
                        /\ item.completed = Cardinality(completed)
                        /\ item.overdue = Cardinality(overdue)

\* the item of the report for T_H1 and a follow-up type is this one
ItemIs(followup_name, eligible, completed, overdue) ==
  \E k \in SummaryItems(T_H1, followup_name) :
    LET item == followup_metrics[1].hospital_summary[k]
    IN  item.eligible = eligible /\ item.completed = completed /\ item.overdue = overdue

\* C15 witness: on the day follow-up 7 is due, of two babies discharged
\* together one has follow-up 2 and none has follow-up 7: follow-up 2 has one
\* completed and one overdue, follow-up 7 has none of either
C15_Witness ==
  /\ followup_metrics # <<>>
  /\ today = BirthDay + 8
  /\ ItemIs("Follow up 2", 2, 1, 1)
  /\ ItemIs("Follow up 7", 2, 0, 0)

\* the baby has a discharge date in one of its three fields
HasDischargeDate(baby) ==
  \/ Get(baby, "dischargeDate", 0) # 0
  \/ Get(baby, "lastDischargeDate", 0) # 0
  \/ Get(baby, "actualDischargeDate", 0) # 0

\* the live records of a hospital that have the anchor date of the type
LiveWithAnchor(hospital, followup_name) ==
  {i \in 1..Len(baby_data) :
     /\ baby_data[i].hospitalName = hospital
     /\ ~Get(baby_data[i], "deadBaby", FALSE)
     /\ IF followup_name = "Follow up 28"
          THEN Get(baby_data[i], "dateOfBirth", 0) # 0
          ELSE HasDischargeDate(baby_data[i])}

\* C16: a record with deadBaby true adds to no counter of any follow-up
\* type; a live baby is eligible for type 28 only with a birth date and for
\* types 2, 7 and 14 only with a discharge date, so a baby never discharged
\* is never eligible for these, whatever the date of the report.
C16_EligibleOnlyLiveWithAnchorDate ==
  followup_metrics # <<>> =>
    /\ \A k \in 1..Len(followup_metrics[1].hospital_summary) :
         LET item == followup_metrics[1].hospital_summary[k]
         IN  /\ item.eligible <=
                  Cardinality(LiveWithAnchor(item.hospital, item.followup_type))
             /\ item.completed + item.overdue <= item.eligible
    /\ followup_metrics[1].total_eligible <=
         Cardinality({<<i, n>> \in (1..Len(baby_data)) \X FollowupNames :
                        i \in LiveWithAnchor(baby_data[i].hospitalName, n)})

\* C16 witness: long after birth, a batch of a dead baby with a discharge
\* and a follow-up and a live baby never discharged: only follow-up 28 of
\* the live baby is eligible
C16_Witness ==
  /\ followup_metrics # <<>>
  /\ today = BirthDay + 30
  /\ Len(baby_data) = 2
  /\ \E i \in 1..2 : Get(baby_data[i], "deadBaby", FALSE) /\ HasDischargeDate(baby_data[i])
  /\ \E i \in 1..2 :
       /\ ~Get(baby_data[i], "deadBaby", FALSE)
       /\ ~HasDischargeDate(baby_data[i])
       /\ Get(baby_data[i], "dateOfBirth", 0) # 0
  /\ Len(followup_metrics[1].hospital_summary) = 1
  /\ followup_metrics[1].hospital_summary[1].followup_type = "Follow up 28"
  /\ followup_metrics[1].total_eligible = 1

\* the seconds of a numeric timestamp that is set: above 1_000_000_000_000
\* it is in milliseconds
InstantSeconds(t) == IF t > 1000000000 THEN t ELSE t * 1000

\* the registration instant field of a record, 0 when there is none
RegistrationOf(baby) ==
  IF Get(baby, "registrationDate", 0) # 0 THEN baby.registrationDate
  ELSE IF "registrationDataType" \in DOMAIN baby
    THEN Get(baby.registrationDataType, "registrationDate", 0)
    ELSE 0

\* the inborn records with both instants whose registration lag in seconds
\* is in [0, hours * 3600]
RegisteredWithin(hours) ==
  {i \in InbornRecords :
     /\ Get(baby_data[i], "dateOfBirth", 0) # 0
     /\ RegistrationOf(baby_data[i]) # 0
     /\ LET lag == InstantSeconds(RegistrationOf(baby_data[i]))
                     - InstantSeconds(baby_data[i].dateOfBirth)
        IN  0 <= lag /\ lag <= hours * 3600}

\* C17: total_inborn counts exactly the records whose placeOfDelivery is one
\* of the two canonical inborn strings; among them the 24h bucket holds the
\* records with a lag in [0, 24] hours and the 12h bucket those with a lag in
\* [0, 12] hours; a record with a negative lag, a lag above 24 hours or a
\* missing instant is in the denominator and in no bucket; a record with
\* another placeOfDelivery changes nothing.
C17_RegistrationBuckets ==
  reg_metrics # <<>> =>
    /\ reg_metrics[1].total_inborn =
         Cardinality({i \in 1..Len(baby_data) :
                        /\ "placeOfDelivery" \in DOMAIN baby_data[i]
                        /\ baby_data[i].placeOfDelivery \in {P_yah_aspatal, P_this_hospital}})
    /\ reg_metrics[1].within_24h_count = Cardinality(RegisteredWithin(24))
    /\ reg_metrics[1].within_12h_count = Cardinality(RegisteredWithin(12))

\* C17 witness: a record registered an hour before its birth and a record
\* with a timely registration whose place is written 'This Hospital': one
\* inborn record, no bucket
C17_Witness ==
  /\ reg_metrics # <<>>
  /\ Len(baby_data) = 2
  /\ \E i \in InbornRecords :
       RegistrationOf(baby_data[i]) # 0 /\ Get(baby_data[i], "dateOfBirth", 0) # 0
         /\ RegistrationOf(baby_data[i]) < baby_data[i].dateOfBirth
  /\ \E i \in 1..2 :
       /\ Get(baby_data[i], "placeOfDelivery", <<>>) = T_This_Hospital
       /\ RegistrationOf(baby_data[i]) = baby_data[i].dateOfBirth + 3600
  /\ reg_metrics[1].total_inborn = 1
  /\ reg_metrics[1].within_24h_count = 0
  /\ reg_metrics[1].within_12h_count = 0

\* the observation entries of a record that have positive minutes and an
\* ageDay
DatedSessions(baby) ==
  LET entries == Get(baby, "observationDay", <<>>)
  IN  {k \in 1..Len(entries) :
         /\ Get(entries[k], "totalKMCtimeDay", 0) > 0
         /\ "ageDay" \in DOMAIN entries[k]}

\* C18, for calculate_kmc_initiation_metrics: an observation entry without
\* ageDay never gives the first-KMC time of a baby; every baby counted in
\* total_babies_with_kmc has an entry with positive minutes and an ageDay,
\* and its time to initiation is the ageDay of such an entry.
C18_EntriesWithoutAgeDayExcluded ==
  kmc_initiation # <<>> =>
    \A d \in 1..Len(kmc_initiation[1].initiation_data) :
      \E i \in 1..Len(baby_data) :
        /\ UidOf(i) = kmc_initiation[1].initiation_data[d].UID
        /\ \E k \in DatedSessions(baby_data[i]) :
             kmc_initiation[1].initiation_data[d].time_to_initiation_hours =
               24 * baby_data[i].observationDay[k].ageDay

stay_duration == reports["stay_duration"]

\* the first record of each UID that is set
FirstOfUid ==
  {i \in 1..Len(baby_data) :
     UidOf(i) # "" /\ \A j \in 1..(i - 1) : UidOf(j) # UidOf(i)}

\* the discharge-date field that goes with the source of a record, 0 when
\* the field is missing or the source is neither tag
SourceDischargeField(baby) ==
  IF baby.source = "baby" THEN Get(baby, "lastDischargeDate", 0)
  ELSE IF baby.source = "babyBackUp" THEN Get(baby, "dischargeDate", 0)
  ELSE 0

\* the babies with a birth instant and a discharge instant strictly after it
StayRecords ==
  {i \in FirstOfUid :
     /\ Get(baby_data[i], "dateOfBirth", 0) # 0
     /\ SourceDischargeField(baby_data[i]) # 0
     /\ InstantSeconds(SourceDischargeField(baby_data[i]))
          > InstantSeconds(baby_data[i].dateOfBirth)}

\* C19: calculate_hospital_stay_duration includes a baby if and only if it
\* has a birth instant, the discharge-date field of its source
\* (lastDischargeDate for 'baby', dischargeDate for 'babyBackUp') and a
\* discharge strictly after the birth; a discharge at or before the birth
\* instant or another source excludes it; total_babies is the sum of the
\* counts of the locations.
C19_StayIncludedIffDischargedAfterBirth ==
  stay_duration # <<>> =>
    LET raw_data == stay_duration[1].raw_data
        location_stats == stay_duration[1].location_stats
    IN  /\ Len(raw_data) = Cardinality(StayRecords)
        /\ {raw_data[k].UID : k \in 1..Len(raw_data)} = {UidOf(i) : i \in StayRecords}
        /\ \A k \in 1..Len(raw_data) :
             \E i \in StayRecords :
               /\ raw_data[k].UID = UidOf(i)
               /\ raw_data[k].stay_seconds =
                    InstantSeconds(SourceDischargeField(baby_data[i]))
                      - InstantSeconds(baby_data[i].dateOfBirth)
        /\ stay_duration[1].total_babies = Len(raw_data)
        /\ stay_duration[1].total_babies =
             Cardinality({<<location, k>> \in (DOMAIN location_stats) \X (1..Len(raw_data)) :
                            k <= location_stats[location].count})

\* C19 witness: of a baby discharged 26 hours after its birth, a baby
\* discharged at its birth instant and a record of another source, only the
\* first is included
C19_Witness ==
  /\ stay_duration # <<>>
  /\ stay_duration[1].total_babies = 1
  /\ \E i \in StayRecords : baby_data[i].source = "baby"
  /\ \E i \in FirstOfUid :
       /\ baby_data[i].source = "baby"
       /\ Get(baby_data[i], "lastDischargeDate", 0) = Get(baby_data[i], "dateOfBirth", 0)
       /\ Get(baby_data[i], "dateOfBirth", 0) # 0

\* C20: for every location the formatted average stay is floor(d) days and
\* round((d - floor(d)) * 24) hours, d being the total stay in days over the
\* number of babies of the location.
C20_FormattedAverageRounded ==
  stay_duration # <<>> =>
    \A location \in DOMAIN stay_duration[1].location_stats :
      LET stats == stay_duration[1].location_stats[location]
          total_seconds == Sum(stats.durations)
          day_seconds == 86400 * stats.count
          hour_seconds == 3600 * stats.count
          rest == total_seconds % day_seconds
          distance == IF stats.avg_formatted.hours * hour_seconds >= rest
                        THEN stats.avg_formatted.hours * hour_seconds - rest
                        ELSE rest - stats.avg_formatted.hours * hour_seconds
      IN  /\ stats.avg_formatted.days = total_seconds \div day_seconds
          /\ 2 * distance <= hour_seconds

avg_kmc_data == reports["avg_kmc_data"]

\* the hospital and the location a record is filed under
HospitalOf(i) == Get(baby_data[i], "hospitalName", P_Unknown)

LocationTextOf(i) == Get(baby_data[i], "currentLocationOfTheBaby", P_Unknown)

\* the records with a birth date
Born == {i \in 1..Len(baby_data) : Get(baby_data[i], "dateOfBirth", 0) # 0}

\* the observation entries of a record that have an ageDay and are dated
\* within the window of the call, both ends included
EntriesInWindow(i) ==
  LET entries == Get(baby_data[i], "observationDay", <<>>)
      born_on == FromSeconds(baby_data[i].dateOfBirth).days
  IN  {k \in 1..Len(entries) :
         /\ "ageDay" \in DOMAIN entries[k]
         /\ call.args[1] <= born_on + entries[k].ageDay
         /\ born_on + entries[k].ageDay <= call.args[2]}

\* those of them with positive minutes
SessionsInWindow(i) ==
  {k \in EntriesInWindow(i) :
     Get(baby_data[i].observationDay[k], "totalKMCtimeDay", 0) > 0}

\* the minutes of a set of entries of a record
MinutesOf(i, entries) ==
  Sum([k \in 1..Len(Get(baby_data[i], "observationDay", <<>>)) |->
         IF k \in entries
           THEN Get(baby_data[i].observationDay[k], "totalKMCtimeDay", 0)
           ELSE 0])

\* a sum over a set of records
SumOver(records, f(_)) ==
  Sum([i \in 1..Len(baby_data) |-> IF i \in records THEN f(i) ELSE 0])

\* the text a pair of names is filed under
KeyText(hospital, location) == hospital \o <<45>> \o location

\* the records with a birth date filed under the same text as a row
FiledWith(row) ==
  {i \in Born :
     KeyText(HospitalOf(i), LocationTextOf(i)) = KeyText(row.hospital, row.location)}

\* the records with a birth date of the hospital and the location of a row
PairOf(row) ==
  {i \in Born : HospitalOf(i) = row.hospital /\ LocationTextOf(i) = row.location}

SameFraction(a, b) == a.num * b.den = b.num * a.den

\* a row holds the sessions, the minutes and the babies of a set of records
RowCounts(row, records) ==
  LET minutes == SumOver(records, LAMBDA i : MinutesOf(i, SessionsInWindow(i)))
      days == SumOver(records, LAMBDA i : Cardinality(SessionsInWindow(i)))
      babies == Cardinality({i \in records : SessionsInWindow(i) # {}})
  IN  /\ row.observation_days = days
      /\ row.baby_count = babies
      /\ days > 0 /\ babies > 0
      /\ SameFraction(row.avg_hours_per_day, Fraction(minutes, days * 60))
      /\ SameFraction(row.avg_hours_per_baby, Fraction(minutes, babies * 60))

\* C21, as amended, for calculate_average_kmc_by_location: a group is the
\* records with a birth date filed under one text "hospital-location"; each
\* of their entries with an ageDay, dated from start_date to end_date
\* inclusive and with positive minutes adds its minutes to the total and 1 to
\* observation_days; baby_count is the number of records of the group with
\* such an entry; avg_hours_per_day is total / observation_days / 60 and
\* avg_hours_per_baby is total / baby_count / 60; there is one row for each
\* group with such an entry and none for the others.
C21_PositiveEntriesInWindowCounted ==
  avg_kmc_data # <<>> =>
    LET rows == avg_kmc_data[1]
    IN  /\ \A r \in 1..Len(rows) : RowCounts(rows[r], FiledWith(rows[r]))
        /\ \A i \in Born :
             SessionsInWindow(i) # {} =>
               \E r \in 1..Len(rows) : i \in FiledWith(rows[r])
        /\ \A r, s \in 1..Len(rows) :
             r # s => KeyText(rows[r].hospital, rows[r].location)
                        # KeyText(rows[s].hospital, rows[s].location)

\* two babies of one group, one with sessions on start_date and on end_date,
\* the other with sessions before and after the window only: one row of two
\* observation days and one baby
C21_Witness ==
  /\ avg_kmc_data # <<>>
  /\ Len(baby_data) = 2
  /\ \E i, j \in Born :
       /\ HospitalOf(i) = HospitalOf(j) /\ LocationTextOf(i) = LocationTextOf(j)
       /\ \E k, l \in SessionsInWindow(i) :
            /\ FromSeconds(baby_data[i].dateOfBirth).days
                 + baby_data[i].observationDay[k].ageDay = call.args[1]
            /\ FromSeconds(baby_data[i].dateOfBirth).days
                 + baby_data[i].observationDay[l].ageDay = call.args[2]
            /\ k # l
       /\ EntriesInWindow(j) = {}
       /\ Get(baby_data[j], "observationDay", <<>>) # <<>>
  /\ Len(avg_kmc_data[1]) = 1
  /\ avg_kmc_data[1][1].observation_days = 2
  /\ avg_kmc_data[1][1].baby_count = 1
  /\ avg_kmc_data[1][1].avg_hours_per_day = Fraction(180, 120)

\* C21, as stated: every entry dated within the window, whatever its minutes,
\* adds 1 to the observation-day count of its group, and a group with such an
\* entry has a row.
C21_EveryEntryInWindowCounted ==
  avg_kmc_data # <<>> =>
    LET rows == avg_kmc_data[1]
    IN  /\ \A r \in 1..Len(rows) :
             rows[r].observation_days =
               SumOver(FiledWith(rows[r]), LAMBDA i : Cardinality(EntriesInWindow(i)))
        /\ \A i \in Born :
             EntriesInWindow(i) # {} =>
               \E r \in 1..Len(rows) : i \in FiledWith(rows[r])

\* C22, for calculate_average_kmc_by_location: the rows are per (hospital,
\* location) pair; every baby with a session in the window has a row of its
\* own hospital and location, and the counts and averages of each row are
\* those of the babies of that hospital and location alone, the names with a
\* '-' included.
C22_RowsPerHospitalAndLocation ==
  avg_kmc_data # <<>> =>
    LET rows == avg_kmc_data[1]
    IN  /\ \A r \in 1..Len(rows) : RowCounts(rows[r], PairOf(rows[r]))
        /\ \A i \in Born :
             SessionsInWindow(i) # {} =>
               \E r \in 1..Len(rows) : i \in PairOf(rows[r])

analysis_data == reports["analysis_data"]

\* the three dates before today
LastThreeDays == {today - 1, today - 2, today - 3}

\* the records the daily analysis reads: with a hospital, a location, an
\* observation entry and a birth date
Analysed ==
  {i \in Born :
     /\ Get(baby_data[i], "hospitalName", <<>>) # <<>>
     /\ Get(baby_data[i], "currentLocationOfTheBaby", <<>>) # <<>>
     /\ Get(baby_data[i], "observationDay", <<>>) # <<>>}

\* the records whose lastDischargeDate falls on a date
LastDischargedOn(date) ==
  {i \in 1..Len(baby_data) :
     /\ Get(baby_data[i], "lastDischargeDate", 0) # 0
     /\ FromSeconds(baby_data[i].lastDischargeDate).days = date}

\* the observation entries of a record with an ageDay and positive minutes
\* dated on a date
SessionsOn(i, date) ==
  {k \in DatedSessions(baby_data[i]) :
     FromSeconds(baby_data[i].dateOfBirth).days
       + baby_data[i].observationDay[k].ageDay = date}

\* the analysed records of a cell that were not discharged on the date
CellRecords(hospital, location, date) ==
  {i \in Analysed \ LastDischargedOn(date) :
     baby_data[i].hospitalName = hospital
       /\ baby_data[i].currentLocationOfTheBaby = location}

\* a cell holds the sessions of a set of records on a date, and their average
\* to the nearest tenth of an hour
CellCounts(cell, records, date) ==
  LET minutes == SumOver(records, LAMBDA i : MinutesOf(i, SessionsOn(i, date)))
      count == SumOver(records, LAMBDA i : Cardinality(SessionsOn(i, date)))
      tenths == cell.average_kmc_hours.num
  IN  /\ cell.total_kmc_minutes = minutes
      /\ cell.baby_count = count
      /\ count = 0 => cell.average_kmc_hours = Zero
      /\ count > 0 =>
           /\ cell.average_kmc_hours.den = 10
           /\ 6 * count * tenths - 3 * count <= minutes
           /\ minutes <= 6 * count * tenths + 3 * count

\* the dates, hospitals and locations of the report are the three dates
\* before today and the names of the batch
DailyShape(report) ==
  /\ DOMAIN report.analysis_data = {DateKey(date) : date \in LastThreeDays}
  /\ DOMAIN report.excluded_counts = {DateKey(date) : date \in LastThreeDays}
  /\ Cardinality(DOMAIN report.analysis_data) = 3
  /\ \A date \in LastThreeDays :
       /\ DOMAIN report.analysis_data[DateKey(date)] =
            {HospitalOf(i) : i \in 1..Len(baby_data)}
       /\ \A hospital \in DOMAIN report.analysis_data[DateKey(date)] :
            DOMAIN report.analysis_data[DateKey(date)][hospital] =
              {LocationTextOf(i) : i \in 1..Len(baby_data)} \ {P_Unknown}

WithUid == SelectSeq(baby_data, LAMBDA baby : Get(baby, "UID", "") # "")

\* C24, for calculate_death_rates: the records with a missing or empty UID,
\* alive or dead, change nothing: the report of the batch is the report of
\* its records that have a UID in total_babies, dead_babies, mortality_rate,
\* the per-hospital, inborn/outborn, per-location and per-stability totals
\* and deaths, and the discharge categories of the dead babies.
C24_RecordsWithoutUidChangeNothing ==
  death_metrics # <<>> =>
    LET report == death_metrics[1]
        without == calculate_death_rates(WithUid, discharge_data)
    IN  /\ report.total_babies = without.total_babies
        /\ report.dead_babies = without.dead_babies
        /\ report.mortality_rate = without.mortality_rate
        /\ report.hospital_data = without.hospital_data
        /\ report.birth_place = without.birth_place
        /\ report.location_analysis = without.location_analysis
        /\ report.kmc_stability = without.kmc_stability
        /\ report.discharge_outcomes.categories = without.discharge_outcomes.categories

\* the total of the dead-baby discharge categories
DeadInCategories ==
  LET categories == death_metrics[1].discharge_outcomes.categories
  IN  categories.critical_home.count + categories.stable_home.count
        + categories.critical_referred.count + categories.died.count
        + categories.other.count

\* C28, for calculate_death_rates over batches whose records all have a UID,
\* a dead baby in more than one record included: dead_babies is at most
\* total_babies, mortality_rate is at most 100, and dead_babies is the sum
\* of the per-hospital deaths and the total of the dead-baby discharge
\* categories.
C28_DeadBabiesConsistent ==
  (death_metrics # <<>> /\ Len(WithUid) = Len(baby_data)) =>
    LET report == death_metrics[1]
    IN  /\ report.dead_babies <= report.total_babies
        /\ report.mortality_rate.num <= 100 * report.mortality_rate.den
        /\ report.dead_babies = Sum(report.hospital_data.deaths)
        /\ report.dead_babies = DeadInCategories

skin_contact_metrics == reports["skin_contact_metrics"]

\* C25, for check_kmc_stability, calculate_kmc_initiation_metrics and
\* calculate_skin_contact_metrics over documents whose totalKMCtimeDay and
\* numberSkinContact hold values of any type: no call raises; each returns a
\* status or a report.
C25_MalformedNumbersNeverRaise ==
  /\ returned # <<>> => "raised" \notin DOMAIN returned[1]
  /\ kmc_initiation # <<>> => "raised" \notin DOMAIN kmc_initiation[1]
  /\ skin_contact_metrics # <<>> => "raised" \notin DOMAIN skin_contact_metrics[1]

\* C26, for calculate_followup_metrics and calculate_daily_kmc_analysis: a
\* report is a function of the batch alone; whatever the date, an invocation
\* with the batch of an earlier invocation returns the report of the earlier
\* one.
C26_ReportsIndependentOfTheDate ==
  /\ followup_metrics # <<>> =>
       followup_metrics[1] = calculate_followup_metrics(<<>>, baby_data, today)
  /\ analysis_data # <<>> =>
       \E up \in [DailyTies -> BOOLEAN] :
         analysis_data[1] = calculate_daily_kmc_analysis(baby_data, today, up)

\* the hospitalName of a loaded record, empty when it has none
NameOf(loaded) == Get(loaded, "hospitalName", <<>>)

\* a name holds one of the markers, in any case
HasMarker(name) ==
  \E marker \in {P_test, P_training, P_demo} : Contains(Lower(name), marker)

\* the records of the baby collection and then those of babyBackUp, as loaded
AllLoaded ==
  [i \in 1..Len(call.args[1]) |->
     call.args[1][i].data @@ [id |-> call.args[1][i].id, source |-> "baby"]]
    \o
  [i \in 1..Len(call.args[2]) |->
     call.args[2][i].data @@ [id |-> call.args[2][i].id, source |-> "babyBackUp"]]

\* the other two collections are returned whole
OthersUnfiltered ==
  /\ Len(discharge_data) = Len(call.args[3])
  /\ \A i \in 1..Len(discharge_data) :
       discharge_data[i] = call.args[3][i].data @@ [id |-> call.args[3][i].id]
  /\ Len(returned[1].followup_data) = Len(call.args[4])
  /\ \A i \in 1..Len(call.args[4]) :
       returned[1].followup_data[i] = call.args[4][i].data @@ [id |-> call.args[4][i].id]

AttemptsInOrder ==
  /\ Len(call.fetches) <= call.args[2]
  /\ \A i \in 1..Len(call.fetches) :
       call.fetches[i] = IF i = 1 THEN <<>>
                         ELSE IF i = 2 THEN <<call.args[3]>>
                         ELSE IF i = 3 THEN <<50>>
                         ELSE <<20>>
  /\ Len(call.sleeps) = (IF call.fetches = <<>> THEN 0 ELSE Len(call.fetches) - 1)
  /\ \A i \in 1..Len(call.sleeps) :
       call.sleeps[i] = IF i = 1 THEN 2 ELSE IF i = 2 THEN 4 ELSE IF i = 3 THEN 8 ELSE 10

\* what is returned is what the last fetch gave, or the empty list after
\* max_retries fetches
ReturnsFetchedOrEmpty ==
  returned # <<>> =>
    /\ call.fetches # <<>>
    /\ \/ returned[1] =
            (IF call.fetches[Len(call.fetches)] = <<>>
               THEN call.args[1]
               ELSE SubSeq(call.args[1], 1,
                           IF Len(call.args[1]) < call.fetches[Len(call.fetches)][1]
                             THEN Len(call.args[1])
                             ELSE call.fetches[Len(call.fetches)][1]))
       \/ (returned[1] = <<>> /\ Len(call.fetches) = call.args[2])

\* C29, for load_collection_with_retry with max_retries >= 1: the call
\* returns, after max_retries fetches at most; the fetches are made with no
\* limit, then batch_size, then 50, then 20, each after the first preceded
\* by a sleep of min(2^attempt, 10) seconds; what is returned is the result
\* of the fetch that did not raise, or the empty list when max_retries
\* fetches raised; nothing is fetched after the return.
C29_RetryTerminatesInOrder ==
  /\ [](AttemptsInOrder /\ ReturnsFetchedOrEmpty)
  /\ [][returned # <<>> => call' = call]_vars
  /\ <>(returned # <<>>)

\* a call with max_retries 5 whose first four fetches raised and whose fifth
\* returned the first 20 documents of 25, after sleeps of 2, 4, 8 and 10 s
C29_Witness ==
  /\ call.fn = "load_collection_with_retry"
  /\ call.args[2] = 5
  /\ Len(call.fetches) = 5
  /\ call.sleeps = <<2, 4, 8, 10>>
  /\ returned # <<>>
  /\ Len(returned[1]) = 20 /\ Len(call.args[1]) = 25

\* the records at the given places of discharge_data, in their order
RecordsAt(places) ==
  LET upto[k \in 0..Len(discharge_data)] ==
        IF k = 0 THEN <<>>
        ELSE IF k \in places THEN Append(upto[k - 1], discharge_data[k])
                             ELSE upto[k - 1]
  IN  upto[Len(discharge_data)]

\* the UIDs of the records at the given places
UidsAt(places) == {discharge_data[i].UID : i \in places}

\* the entries the report files under any reason
ReasonEntries ==
  UNION {{critical_reasons_data[1].individual_reasons[reason].babies[k] :
            k \in 1..Len(critical_reasons_data[1].individual_reasons[reason].babies)} :
         reason \in DOMAIN critical_reasons_data[1].individual_reasons}

\* the report counts at most one baby for each UID of the given records,
\* every entry it files is taken from the one of them with its UID, and it
\* is the report of these records alone
ContributeAlone(places) ==
  /\ critical_reasons_data[1].total_babies_with_reasons <= Cardinality(UidsAt(places))
  /\ \A entry \in ReasonEntries :
       \E i \in places :
         /\ entry.UID = discharge_data[i].UID
         /\ entry.full_reasons = Strip(discharge_data[i].criticalReasons)
         /\ entry.hospital = Get(discharge_data[i], "hospitalName", P_Unknown)
         /\ entry.dischargeStatus = Get(discharge_data[i], "dischargeStatus", P_Unknown)
  /\ critical_reasons_data[1] = calculate_individual_critical_reasons(RecordsAt(places))

\* the first record of each UID whose criticalReasons is not the empty text
FirstNonEmptyRecords ==
  {i \in 1..Len(discharge_data) :
     /\ Get(discharge_data[i], "UID", "") # ""
     /\ Get(discharge_data[i], "criticalReasons", <<>>) # <<>>
     /\ \A j \in 1..(i - 1) :
          \/ Get(discharge_data[j], "UID", "") # discharge_data[i].UID
          \/ Get(discharge_data[j], "criticalReasons", <<>>) = <<>>}

\* C30 as stated: each UID adds at most 1 to total_babies_with_reasons, and
\* the record that brings its reasons is the first one of the UID whose
\* criticalReasons is not empty
C30_FirstNonEmptyRecordContributes ==
  critical_reasons_data # <<>> =>
    /\ Cardinality(UidsAt(FirstNonEmptyRecords)) = Cardinality(FirstNonEmptyRecords)
    /\ ContributeAlone(FirstNonEmptyRecords)

\* C30, amended: each UID adds at most 1 to total_babies_with_reasons however
\* many discharge records share it, and the record that brings the reasons
\* of a UID is its first record in iteration order whose criticalReasons is
\* not blank: an earlier record of the UID with a missing, empty or blank
\* criticalReasons does not block it, and every later record of the UID is
\* ignored.
C30_FirstNonBlankRecordContributes ==
  critical_reasons_data # <<>> =>
    /\ Cardinality(UidsAt(ReasonRecords)) = Cardinality(ReasonRecords)
    /\ critical_reasons_data[1].total_babies_with_reasons =
         Cardinality(UidsAt(ReasonRecords))
    /\ ContributeAlone(ReasonRecords)

\* C30 witness: a record with a blank field, then a record of the same UID
\* with one reason, which is counted
C30_Witness ==
  /\ critical_reasons_data # <<>>
  /\ Len(discharge_data) = 2
  /\ discharge_data[1].UID = "u1" /\ discharge_data[2].UID = "u1"
  /\ "criticalReasons" \in DOMAIN discharge_data[1]
  /\ discharge_data[1].criticalReasons = R_blank
  /\ "criticalReasons" \in DOMAIN discharge_data[2]
  /\ discharge_data[2].criticalReasons = R_GA
  /\ ReasonRecords = {2}
  /\ critical_reasons_data[1].total_babies_with_reasons = 1
  /\ ReasonCount(R_GA) = 1

====
